---- MODULE Spec2Model ----
(***************************************************************************)
(* A model of the connection-state pieces of the QUIC transport in src/:   *)
(* the simple-frame processor (quic/state/SimpleFrameFunctions.cpp) and    *)
(* the packet rebuilder (quic/codec/QuicPacketRebuilder.cpp).              *)
(*                                                                         *)
(* A folly::Optional<T> is modelled as a set with at most one element:     *)
(* {} is folly::none and {x} holds x.                                      *)
(***************************************************************************)
EXTENDS Integers, Sequences, FiniteSets

\* ------------------------------------------------------------------ bounds
MaxPathData == 2
MaxSeq == 2
MaxLimit == 1
MaxPending == 2
MaxClock == 1
MaxPackets == 2
MaxSpace == 3
MaxInflight == 1
MaxTime == 3
MaxInterval == 2
MaxBurst == 2
MaxTokens == 6
MaxCredit == 3
MaxBudget == 40
MaxFrames == 2
MaxBatchNum == 3
MaxPacketSize == 3

\* ------------------------------------------------------------------- state
VARIABLES
  frames,                        \* conn.pendingEvents.frames
  pathChallenge,                 \* conn.pendingEvents.pathChallenge (optional)
  outstandingPathValidation,     \* conn.outstandingPathValidation (optional)
  schedulePathValidationTimeout, \* conn.pendingEvents.schedulePathValidationTimeout
  cancelPingTimeout,             \* conn.pendingEvents.cancelPingTimeout
  pathChallengeStartTime,        \* conn.pathChallengeStartTime
  now,                           \* the value Clock::now() returns
  peerConnectionIds,             \* conn.peerConnectionIds
  nodeType,                      \* conn.nodeType
  serverConnectionId,            \* conn.serverConnectionId (optional)
  clientConnectionId,            \* conn.clientConnectionId (optional)
  selfActiveConnectionIdLimit,   \* conn.transportSettings.selfActiveConnectionIdLimit
  inflight,                      \* simple frames written to a packet that is still outstanding
  streams,                       \* conn.streamManager: the state of each stream id
  partialReliabilityEnabled,     \* conn.partialReliabilityEnabled
  maxLocalBidirectionalStreams,  \* the stream manager's limit of local bidirectional streams
  maxLocalUnidirectionalStreams, \* the stream manager's limit of local unidirectional streams
  outstandingPackets,            \* conn.outstandingPackets, by packet number
  nextPacketNum,                 \* the packet number the next packet sent gets
  outstandingPacketEvents,       \* conn.outstandingPacketEvents
  outstandingClonedPacketsCount, \* conn.outstandingClonedPacketsCount
  cryptoRetransmissionBuffer,    \* conn.cryptoState->oneRttStream.retransmissionBuffer
  writeConnectionDataPacketsLimit, \* conn.transportSettings.writeConnectionDataPacketsLimit
  pacingTimerTickInterval,       \* conn.transportSettings.pacingTimerTickInterval
  batchSize_,                    \* DefaultPacer::batchSize_
  writeInterval_,                \* DefaultPacer::writeInterval_
  scheduledWriteTime_,           \* DefaultPacer::scheduledWriteTime_, an optional time
  cachedBatchSize_,              \* DefaultPacer::cachedBatchSize_
  appLimited_,                   \* DefaultPacer::appLimited_
  tokens_,                       \* DefaultPacer::tokens_
  pc,                            \* where a test program driving the pacer is in its script
  maxCredit_,                    \* PendingPathRateLimiter::maxCredit_
  credit_,                       \* PendingPathRateLimiter::credit_
  lastChecked_,                  \* PendingPathRateLimiter::lastChecked_, an optional time
  sentSinceReset,                \* bytes passed to onPacketSent since the credit was last reset
  remainingBytes_,               \* RegularQuicPacketBuilder::remainingBytes_
  packet_,                       \* RegularQuicPacketBuilder::packet_: its header and frames
  packetNumberEncoding_,         \* RegularQuicPacketBuilder::packetNumberEncoding_
  body_,                         \* RegularQuicPacketBuilder::body_, a sequence of bytes
  cipherOverhead_,               \* RegularQuicPacketBuilder::cipherOverhead_
  batchWriter,                   \* the BatchWriter made by BatchWriterFactory::makeBatchWriter
  batched,                       \* lengths of the packets appended since the last reset or flush
  mustFlush,                     \* the last append returned true and no reset or flush followed
  lastCall                       \* the last call made on the connection and its outcome

sfVars == <<frames, pathChallenge, outstandingPathValidation,
            schedulePathValidationTimeout, cancelPingTimeout,
            pathChallengeStartTime, now, inflight>>
cidVars == <<peerConnectionIds, nodeType, serverConnectionId, clientConnectionId,
             selfActiveConnectionIdLimit>>
streamVars == <<streams, partialReliabilityEnabled, maxLocalBidirectionalStreams,
               maxLocalUnidirectionalStreams>>
rbVars == <<outstandingPackets, nextPacketNum, outstandingPacketEvents,
           outstandingClonedPacketsCount, cryptoRetransmissionBuffer>>
pacerVars == <<writeConnectionDataPacketsLimit, pacingTimerTickInterval,
               batchSize_, writeInterval_, scheduledWriteTime_,
               cachedBatchSize_, appLimited_, tokens_>>
limiterVars == <<maxCredit_, credit_, lastChecked_, sentSinceReset>>
\* The state of the components beside the connection's frames, streams and
\* packets, and what is beside the pacer and beside the rate limiter.
builderVars == <<remainingBytes_, packet_, packetNumberEncoding_, body_,
                 cipherOverhead_>>
connVars == <<sfVars, cidVars, streamVars, rbVars>>
writerVars == <<batchWriter, batched, mustFlush>>
componentVars == <<pacerVars, pc, limiterVars, builderVars, writerVars>>
nonPacerVars == <<connVars, limiterVars, builderVars, writerVars>>
nonLimiterVars == <<connVars, pacerVars, pc, builderVars, writerVars>>
nonBuilderVars == <<connVars, pacerVars, pc, limiterVars, writerVars>>
nonWriterVars == <<connVars, pacerVars, pc, limiterVars, builderVars>>
vars == <<sfVars, cidVars, streamVars, rbVars, componentVars, lastCall>>

\* ------------------------------------------------------------------ values
None == {}
Some(x) == {x}
HasValue(o) == o # {}
Value(o) == CHOOSE x \in o : TRUE

\* A ConnectionId is its byte string; <<>> is the zero-length connection id.
ConnId(i) == <<i>>
\* Enough connection ids to fill the peer's set and still offer a new one.
MaxConnId == MaxLimit + 2
InitialPeerConnId == ConnId(1)
ZeroLengthConnId == <<>>

PathDatas == 1..MaxPathData
StreamIds == {0, 4}

PingFrame == [type |-> "PingFrame"]
StopSendingFrame(s) == [type |-> "StopSendingFrame", streamId |-> s]
MinStreamDataFrame(s, o) ==
  [type |-> "MinStreamDataFrame", streamId |-> s, minimumStreamOffset |-> o]
ExpiredStreamDataFrame(s, o) ==
  [type |-> "ExpiredStreamDataFrame", streamId |-> s, minimumStreamOffset |-> o]
PathChallengeFrame(d) == [type |-> "PathChallengeFrame", pathData |-> d]
PathResponseFrame(d) == [type |-> "PathResponseFrame", pathData |-> d]
NewConnectionIdFrame(seq, rpt, cid, tok) ==
  [type |-> "NewConnectionIdFrame", sequenceNumber |-> seq, retirePriorTo |-> rpt,
   connectionId |-> cid, token |-> tok]
MaxStreamsFrame(n, bidi) ==
  [type |-> "MaxStreamsFrame", maxStreams |-> n, isForBidirectional |-> bidi]
RetireConnectionIdFrame(seq) ==
  [type |-> "RetireConnectionIdFrame", sequenceNumber |-> seq]

\* An element of conn.peerConnectionIds.
ConnectionIdData(cid, seq, tok) ==
  [connId |-> cid, sequenceNumber |-> seq, token |-> tok]

PathChallengeFrames == {PathChallengeFrame(d) : d \in PathDatas}
PathResponseFrames == {PathResponseFrame(d) : d \in PathDatas}
\* The stateless reset token of a frame is a function of its connection id
\* and sequence number here, so that a stored token identifies its frame.
NewConnectionIdFrames ==
  UNION {{NewConnectionIdFrame(seq, rpt, ConnId(c), <<c, seq>>) :
            rpt \in {0, seq, seq + 1}, c \in 1..MaxConnId} : seq \in 1..MaxSeq}

\* The record of a call: the entry point, its arguments and what it returned
\* ("true", "false", "void", "none", "frame", the transport error it raised,
\* or "abort" when a CHECK failed).
Returned(op, f, changed, res) ==
  [op |-> op, frame |-> f, fromChangedPeerAddress |-> changed, result |-> res]

\* -------------------------------------------------------------- connection
\* The peer's connection id: conn.nodeType == Client ? serverConnectionId
\*                                                   : clientConnectionId.
PeerConnId == IF nodeType = "Client" THEN serverConnectionId ELSE clientConnectionId

SetPeerConnId(cid) ==
  IF nodeType = "Client"
  THEN serverConnectionId' = Some(cid) /\ UNCHANGED <<clientConnectionId>>
  ELSE clientConnectionId' = Some(cid) /\ UNCHANGED <<serverConnectionId>>

RemoveAt(s, i) == [j \in 1..(Len(s) - 1) |-> IF j < i THEN s[j] ELSE s[j + 1]]

\* Indices of the entries of conn.peerConnectionIds other than the id in use.
UnusedPeerConnIds ==
  {i \in 1..Len(peerConnectionIds) : Some(peerConnectionIds[i].connId) # PeerConnId}

\* conn.retireAndSwitchPeerConnectionIds(): TRUE iff an unused peer connection
\* id exists; then the first unused id becomes the peer's id and the entry of
\* the id in use is retired from the set.
CanRotatePeerConnId == HasValue(PeerConnId) /\ UnusedPeerConnIds # {}

RetireAndSwitchPeerConnectionIds ==
  LET repl == CHOOSE i \in UnusedPeerConnIds : \A j \in UnusedPeerConnIds : i <= j
      cur == {i \in 1..Len(peerConnectionIds) :
                Some(peerConnectionIds[i].connId) = PeerConnId}
  IN /\ SetPeerConnId(peerConnectionIds[repl].connId)
     /\ peerConnectionIds' =
          IF cur = {} THEN peerConnectionIds
          ELSE RemoveAt(peerConnectionIds, CHOOSE i \in cur : TRUE)
     /\ UNCHANGED <<nodeType, selfActiveConnectionIdLimit>>

\* ----------------------------------------------------------------- streams
StreamExists(sid) == sid \in DOMAIN streams /\ streams[sid].exists

\* advanceCurrentReceiveOffset / onRecvExpiredStreamDataFrame: the receive
\* offset of the stream moves forward to the given offset, never backward.
AdvanceCurrentReceiveOffset(sid, off) ==
  streams' = [streams EXCEPT ![sid].currentReceiveOffset =
                IF off > @ THEN off ELSE @]

\* advanceMinimumRetransmittableOffset / onRecvMinStreamDataFrame: the
\* retransmit offset moves forward and the retransmission buffer loses the
\* entries that start below it.
AdvanceMinimumRetransmittableOffset(sid, off) ==
  streams' = [streams EXCEPT
                ![sid].minimumRetransmittableOffset = IF off > @ THEN off ELSE @,
                ![sid].retransmissionBuffer = {b \in @ : b.offset >= off}]

\* sendStopSendingSMHandler: the stream records the peer's STOP_SENDING.
SendStopSendingSMHandler(sid) ==
  streams' = [streams EXCEPT ![sid].stopSendingReceived = TRUE]

\* setMaxLocalBidirectionalStreams / setMaxLocalUnidirectionalStreams: the
\* limit is raised to the advertised value and never lowered.
SetMaxLocalStreams(n, bidi) ==
  IF bidi
  THEN /\ maxLocalBidirectionalStreams' =
            IF n > maxLocalBidirectionalStreams THEN n ELSE maxLocalBidirectionalStreams
       /\ UNCHANGED maxLocalUnidirectionalStreams
  ELSE /\ maxLocalUnidirectionalStreams' =
            IF n > maxLocalUnidirectionalStreams THEN n ELSE maxLocalUnidirectionalStreams
       /\ UNCHANGED maxLocalBidirectionalStreams

\* ------------------------------------------------- simple-frame processor
\* sendSimpleFrame
SendSimpleFrame(f) ==
  /\ frames' = Append(frames, f)
  /\ lastCall' = Returned("sendSimpleFrame", f, FALSE, "void")
  /\ UNCHANGED <<pathChallenge, outstandingPathValidation,
                 schedulePathValidationTimeout, cancelPingTimeout,
                 pathChallengeStartTime, now, inflight>>
  /\ UNCHANGED <<cidVars, streamVars, rbVars, componentVars>>

\* RecvPathChallenge with the response enqueued before the rotation is
\* known to have succeeded.
RecvPathChallengeEnqueuesFirst(f, changed) ==
  IF ~CanRotatePeerConnId
  THEN /\ frames' = Append(frames, PathResponseFrame(f.pathData))
       /\ lastCall' = Returned("received", f, changed, "INVALID_MIGRATION")
       /\ UNCHANGED <<pathChallenge, outstandingPathValidation,
                      schedulePathValidationTimeout, cancelPingTimeout,
                      pathChallengeStartTime, now, inflight>>
       /\ UNCHANGED <<cidVars, streamVars, rbVars, componentVars>>
  ELSE /\ RetireAndSwitchPeerConnectionIds
       /\ frames' = Append(frames, PathResponseFrame(f.pathData))
       /\ lastCall' = Returned("received", f, changed, "false")
       /\ UNCHANGED <<pathChallenge, outstandingPathValidation,
                      schedulePathValidationTimeout, cancelPingTimeout,
                      pathChallengeStartTime, now, inflight>>
       /\ UNCHANGED <<streamVars, rbVars, componentVars>>

\* updateSimpleFrameOnPacketReceived, case PathChallengeFrame_E
RecvPathChallenge(f, changed) ==
  IF ~CanRotatePeerConnId
  THEN /\ lastCall' = Returned("received", f, changed, "INVALID_MIGRATION")
       /\ UNCHANGED <<sfVars, cidVars, streamVars, rbVars, componentVars>>
  ELSE /\ RetireAndSwitchPeerConnectionIds
       /\ frames' = Append(frames, PathResponseFrame(f.pathData))
       /\ lastCall' = Returned("received", f, changed, "false")
       /\ UNCHANGED <<pathChallenge, outstandingPathValidation,
                      schedulePathValidationTimeout, cancelPingTimeout,
                      pathChallengeStartTime, now, inflight>>
       /\ UNCHANGED <<streamVars, rbVars, componentVars>>

\* RecvPathResponse without the check of the peer address.
RecvPathResponseAnyAddress(f, changed) ==
  IF \/ ~HasValue(outstandingPathValidation)
     \/ f.pathData # Value(outstandingPathValidation).pathData
  THEN /\ lastCall' = Returned("received", f, changed, "false")
       /\ UNCHANGED <<sfVars, cidVars, streamVars, rbVars, componentVars>>
  ELSE /\ outstandingPathValidation' = None
       /\ schedulePathValidationTimeout' = FALSE
       /\ lastCall' = Returned("received", f, changed, "false")
       /\ UNCHANGED <<frames, pathChallenge, cancelPingTimeout,
                      pathChallengeStartTime, now, inflight>>
       /\ UNCHANGED <<cidVars, streamVars, rbVars, componentVars>>

\* updateSimpleFrameOnPacketReceived, case PathResponseFrame_E. The sample
\* handed to updateRtt is now - pathChallengeStartTime; the RTT estimator
\* it feeds is not part of this model.
RecvPathResponse(f, changed) ==
  IF \/ changed
     \/ ~HasValue(outstandingPathValidation)
     \/ f.pathData # Value(outstandingPathValidation).pathData
  THEN /\ lastCall' = Returned("received", f, changed, "false")
       /\ UNCHANGED <<sfVars, cidVars, streamVars, rbVars, componentVars>>
  ELSE /\ outstandingPathValidation' = None
       /\ schedulePathValidationTimeout' = FALSE
       /\ lastCall' = Returned("received", f, changed, "false")
       /\ UNCHANGED <<frames, pathChallenge, cancelPingTimeout,
                      pathChallengeStartTime, now, inflight>>
       /\ UNCHANGED <<cidVars, streamVars, rbVars, componentVars>>

\* The entries of conn.peerConnectionIds that carry the given connection id.
ExistingPeerConnIdData(cid) ==
  {i \in 1..Len(peerConnectionIds) : peerConnectionIds[i].connId = cid}

\* NewConnectionIdOutcome without the search for the connection id among the
\* stored ones.
NewConnectionIdOutcomeNoSearch(f) ==
  IF f.retirePriorTo > f.sequenceNumber
  THEN [result |-> "PROTOCOL_VIOLATION", store |-> FALSE]
  ELSE IF ~HasValue(PeerConnId) \/ Len(Value(PeerConnId)) = 0
  THEN [result |-> "PROTOCOL_VIOLATION", store |-> FALSE]
  ELSE IF Len(peerConnectionIds) = selfActiveConnectionIdLimit + 1
  THEN [result |-> "false", store |-> FALSE]
  ELSE [result |-> "false", store |-> TRUE]

\* NewConnectionIdOutcome with the size compared to the limit without the
\* initial id's slot counted on the same side (limit + 2 instead of + 1).
NewConnectionIdOutcomeCapOffByOne(f) ==
  LET existing == ExistingPeerConnIdData(f.connectionId)
      first == CHOOSE i \in existing : \A j \in existing : i <= j
  IN IF f.retirePriorTo > f.sequenceNumber
     THEN [result |-> "PROTOCOL_VIOLATION", store |-> FALSE]
     ELSE IF existing # {}
     THEN (IF peerConnectionIds[first].sequenceNumber # f.sequenceNumber
           THEN [result |-> "PROTOCOL_VIOLATION", store |-> FALSE]
           ELSE [result |-> "false", store |-> FALSE])
     ELSE IF ~HasValue(PeerConnId) \/ Len(Value(PeerConnId)) = 0
     THEN [result |-> "PROTOCOL_VIOLATION", store |-> FALSE]
     ELSE IF Len(peerConnectionIds) = selfActiveConnectionIdLimit + 2
     THEN [result |-> "false", store |-> FALSE]
     ELSE [result |-> "false", store |-> TRUE]

\* NewConnectionIdOutcome with retirePriorTo checked after the duplicates.
NewConnectionIdOutcomeLateRetireCheck(f) ==
  LET existing == ExistingPeerConnIdData(f.connectionId)
      first == CHOOSE i \in existing : \A j \in existing : i <= j
  IN IF existing # {}
     THEN (IF peerConnectionIds[first].sequenceNumber # f.sequenceNumber
           THEN [result |-> "PROTOCOL_VIOLATION", store |-> FALSE]
           ELSE [result |-> "false", store |-> FALSE])
     ELSE IF f.retirePriorTo > f.sequenceNumber
     THEN [result |-> "PROTOCOL_VIOLATION", store |-> FALSE]
     ELSE IF ~HasValue(PeerConnId) \/ Len(Value(PeerConnId)) = 0
     THEN [result |-> "PROTOCOL_VIOLATION", store |-> FALSE]
     ELSE IF Len(peerConnectionIds) = selfActiveConnectionIdLimit + 1
     THEN [result |-> "false", store |-> FALSE]
     ELSE [result |-> "false", store |-> TRUE]

\* NewConnectionIdOutcome with a repeated connection id always taken as a
\* repetition of the stored frame, whatever its sequence number.
NewConnectionIdOutcomeAnySequence(f) ==
  LET existing == ExistingPeerConnIdData(f.connectionId)
  IN IF f.retirePriorTo > f.sequenceNumber
     THEN [result |-> "PROTOCOL_VIOLATION", store |-> FALSE]
     ELSE IF existing # {}
     THEN [result |-> "false", store |-> FALSE]
     ELSE IF ~HasValue(PeerConnId) \/ Len(Value(PeerConnId)) = 0
     THEN [result |-> "PROTOCOL_VIOLATION", store |-> FALSE]
     ELSE IF Len(peerConnectionIds) = selfActiveConnectionIdLimit + 1
     THEN [result |-> "false", store |-> FALSE]
     ELSE [result |-> "false", store |-> TRUE]

\* NewConnectionIdOutcome with the full set tested by > instead of ==.
NewConnectionIdOutcomeCapNeverHit(f) ==
  LET existing == ExistingPeerConnIdData(f.connectionId)
      first == CHOOSE i \in existing : \A j \in existing : i <= j
  IN IF f.retirePriorTo > f.sequenceNumber
     THEN [result |-> "PROTOCOL_VIOLATION", store |-> FALSE]
     ELSE IF existing # {}
     THEN (IF peerConnectionIds[first].sequenceNumber # f.sequenceNumber
           THEN [result |-> "PROTOCOL_VIOLATION", store |-> FALSE]
           ELSE [result |-> "false", store |-> FALSE])
     ELSE IF ~HasValue(PeerConnId) \/ Len(Value(PeerConnId)) = 0
     THEN [result |-> "PROTOCOL_VIOLATION", store |-> FALSE]
     ELSE IF Len(peerConnectionIds) > selfActiveConnectionIdLimit + 1
     THEN [result |-> "false", store |-> FALSE]
     ELSE [result |-> "false", store |-> TRUE]

\* updateSimpleFrameOnPacketReceived, case NewConnectionIdFrame_E: what the
\* checks of the frame decide, in the order the code makes them.
NewConnectionIdOutcome(f) ==
  LET existing == ExistingPeerConnIdData(f.connectionId)
      first == CHOOSE i \in existing : \A j \in existing : i <= j
  IN IF f.retirePriorTo > f.sequenceNumber
     THEN [result |-> "PROTOCOL_VIOLATION", store |-> FALSE]
     ELSE IF existing # {}
     THEN (IF peerConnectionIds[first].sequenceNumber # f.sequenceNumber
           THEN [result |-> "PROTOCOL_VIOLATION", store |-> FALSE]
           ELSE [result |-> "false", store |-> FALSE])
     ELSE IF ~HasValue(PeerConnId) \/ Len(Value(PeerConnId)) = 0
     THEN [result |-> "PROTOCOL_VIOLATION", store |-> FALSE]
     ELSE IF Len(peerConnectionIds) = selfActiveConnectionIdLimit + 1
     THEN [result |-> "false", store |-> FALSE]
     ELSE [result |-> "false", store |-> TRUE]

RecvNewConnectionId(f, changed) ==
  LET outcome == NewConnectionIdOutcome(f)
  IN /\ peerConnectionIds' =
          IF outcome.store
          THEN Append(peerConnectionIds,
                      ConnectionIdData(f.connectionId, f.sequenceNumber, f.token))
          ELSE peerConnectionIds
     /\ lastCall' = Returned("received", f, changed, outcome.result)
     /\ UNCHANGED <<nodeType, serverConnectionId, clientConnectionId,
                    selfActiveConnectionIdLimit>>
     /\ UNCHANGED <<sfVars, streamVars, rbVars, componentVars>>

\* updateSimpleFrameOnPacketReceived, case StopSendingFrame_E
RecvStopSending(f, changed) ==
  /\ IF StreamExists(f.streamId)
     THEN SendStopSendingSMHandler(f.streamId)
     ELSE UNCHANGED streams
  /\ lastCall' = Returned("received", f, changed, "true")
  /\ UNCHANGED <<partialReliabilityEnabled, maxLocalBidirectionalStreams,
                 maxLocalUnidirectionalStreams>>
  /\ UNCHANGED <<sfVars, cidVars, rbVars, componentVars>>

\* updateSimpleFrameOnPacketReceived, case MinStreamDataFrame_E
RecvMinStreamData(f, changed) ==
  /\ IF StreamExists(f.streamId) /\ partialReliabilityEnabled
     THEN AdvanceMinimumRetransmittableOffset(f.streamId, f.minimumStreamOffset)
     ELSE UNCHANGED streams
  /\ lastCall' = Returned("received", f, changed, "true")
  /\ UNCHANGED <<partialReliabilityEnabled, maxLocalBidirectionalStreams,
                 maxLocalUnidirectionalStreams>>
  /\ UNCHANGED <<sfVars, cidVars, rbVars, componentVars>>

\* updateSimpleFrameOnPacketReceived, case ExpiredStreamDataFrame_E
RecvExpiredStreamData(f, changed) ==
  /\ IF StreamExists(f.streamId) /\ partialReliabilityEnabled
     THEN AdvanceCurrentReceiveOffset(f.streamId, f.minimumStreamOffset)
     ELSE UNCHANGED streams
  /\ lastCall' = Returned("received", f, changed, "true")
  /\ UNCHANGED <<partialReliabilityEnabled, maxLocalBidirectionalStreams,
                 maxLocalUnidirectionalStreams>>
  /\ UNCHANGED <<sfVars, cidVars, rbVars, componentVars>>

\* updateSimpleFrameOnPacketReceived, case MaxStreamsFrame_E
RecvMaxStreams(f, changed) ==
  /\ SetMaxLocalStreams(f.maxStreams, f.isForBidirectional)
  /\ lastCall' = Returned("received", f, changed, "true")
  /\ UNCHANGED <<streams, partialReliabilityEnabled>>
  /\ UNCHANGED <<sfVars, cidVars, rbVars, componentVars>>

\* RecvOnlyReturns reporting every such frame as retransmittable.
RecvOnlyReturnsTrue(f, changed, res) ==
  /\ lastCall' = Returned("received", f, changed, "true")
  /\ UNCHANGED <<sfVars, cidVars, streamVars, rbVars, componentVars>>

\* updateSimpleFrameOnPacketReceived, cases PingFrame_E (true) and
\* RetireConnectionIdFrame_E (false): nothing but the return value.
RecvOnlyReturns(f, changed, res) ==
  /\ lastCall' = Returned("received", f, changed, res)
  /\ UNCHANGED <<sfVars, cidVars, streamVars, rbVars, componentVars>>

\* updateSimpleFrameOnPacketReceived
UpdateSimpleFrameOnPacketReceived(f, changed) ==
  CASE f.type = "PingFrame" -> RecvOnlyReturns(f, changed, "true")
    [] f.type = "StopSendingFrame" -> RecvStopSending(f, changed)
    [] f.type = "MinStreamDataFrame" -> RecvMinStreamData(f, changed)
    [] f.type = "ExpiredStreamDataFrame" -> RecvExpiredStreamData(f, changed)
    [] f.type = "PathChallengeFrame" -> RecvPathChallenge(f, changed)
    [] f.type = "PathResponseFrame" -> RecvPathResponse(f, changed)
    [] f.type = "NewConnectionIdFrame" -> RecvNewConnectionId(f, changed)
    [] f.type = "MaxStreamsFrame" -> RecvMaxStreams(f, changed)
    [] f.type = "RetireConnectionIdFrame" -> RecvOnlyReturns(f, changed, "false")

\* updateSimpleFrameOnAck
UpdateSimpleFrameOnAck(f) ==
  /\ cancelPingTimeout' = IF f.type = "PingFrame" THEN TRUE ELSE cancelPingTimeout
  /\ lastCall' = Returned("acked", f, FALSE, "void")
  /\ UNCHANGED <<frames, pathChallenge, outstandingPathValidation,
                 schedulePathValidationTimeout, pathChallengeStartTime, now>>
  /\ UNCHANGED <<cidVars, streamVars, rbVars, componentVars>>

\* A clone filter that lets every frame through.
UpdateSimpleFrameOnPacketCloneAll(f) == Some(f)

\* A clone handler that lets a PATH_RESPONSE into the clone.
UpdateSimpleFrameOnPacketCloneKeepsResponse(f) ==
  CASE f.type \in {"PingFrame", "PathResponseFrame"} -> Some(f)
    [] f.type \in {"StopSendingFrame", "MinStreamDataFrame", "ExpiredStreamDataFrame"} ->
         IF ~StreamExists(f.streamId) THEN None ELSE Some(f)
    [] f.type = "PathChallengeFrame" ->
         IF ~HasValue(outstandingPathValidation) \/ f # Value(outstandingPathValidation)
         THEN None ELSE Some(f)
    [] f.type \in {"NewConnectionIdFrame", "MaxStreamsFrame",
                   "RetireConnectionIdFrame"} -> Some(f)

\* updateSimpleFrameOnPacketClone: the frame to write into the clone, if any.
UpdateSimpleFrameOnPacketClone(f) ==
  CASE f.type = "PingFrame" -> Some(f)
    [] f.type \in {"StopSendingFrame", "MinStreamDataFrame", "ExpiredStreamDataFrame"} ->
         IF ~StreamExists(f.streamId) THEN None ELSE Some(f)
    [] f.type = "PathChallengeFrame" ->
         IF ~HasValue(outstandingPathValidation) \/ f # Value(outstandingPathValidation)
         THEN None ELSE Some(f)
    [] f.type = "PathResponseFrame" -> None
    [] f.type \in {"NewConnectionIdFrame", "MaxStreamsFrame",
                   "RetireConnectionIdFrame"} -> Some(f)

\* A search that reports the head of the queue whenever f is pending.
FindFrameHead(f) ==
  IF \E i \in 1..Len(frames) : frames[i] = f THEN 1 ELSE 0

\* std::find on conn.pendingEvents.frames: the first index holding f, or 0.
FindFrame(f) ==
  LET at == {i \in 1..Len(frames) : frames[i] = f}
  IN IF at = {} THEN 0 ELSE CHOOSE i \in at : \A j \in at : i <= j

\* A send handler that stamps no start time for the path challenge.
UpdateSimpleFrameOnPacketSentNoStamp(f) ==
  IF f.type = "PathChallengeFrame"
  THEN /\ outstandingPathValidation' = pathChallenge
       /\ pathChallenge' = None
       /\ schedulePathValidationTimeout' = TRUE
       /\ lastCall' = Returned("sent", f, FALSE, "void")
       /\ UNCHANGED <<frames, cancelPingTimeout, now, pathChallengeStartTime>>
       /\ UNCHANGED <<cidVars, streamVars, rbVars, componentVars>>
  ELSE IF FindFrame(f) = 0
  THEN /\ lastCall' = Returned("sent", f, FALSE, "abort")
       /\ UNCHANGED <<frames, pathChallenge, outstandingPathValidation,
                      schedulePathValidationTimeout, cancelPingTimeout,
                      pathChallengeStartTime, now>>
       /\ UNCHANGED <<cidVars, streamVars, rbVars, componentVars>>
  ELSE /\ frames' = RemoveAt(frames, FindFrame(f))
       /\ lastCall' = Returned("sent", f, FALSE, "void")
       /\ UNCHANGED <<pathChallenge, outstandingPathValidation,
                      schedulePathValidationTimeout, cancelPingTimeout,
                      pathChallengeStartTime, now>>
       /\ UNCHANGED <<cidVars, streamVars, rbVars, componentVars>>

\* updateSimpleFrameOnPacketSent
UpdateSimpleFrameOnPacketSent(f) ==
  IF f.type = "PathChallengeFrame"
  THEN /\ outstandingPathValidation' = pathChallenge
       /\ pathChallenge' = None
       /\ schedulePathValidationTimeout' = TRUE
       /\ pathChallengeStartTime' = now
       /\ lastCall' = Returned("sent", f, FALSE, "void")
       /\ UNCHANGED <<frames, cancelPingTimeout, now>>
       /\ UNCHANGED <<cidVars, streamVars, rbVars, componentVars>>
  ELSE IF FindFrame(f) = 0
  THEN /\ lastCall' = Returned("sent", f, FALSE, "abort")
       /\ UNCHANGED <<frames, pathChallenge, outstandingPathValidation,
                      schedulePathValidationTimeout, cancelPingTimeout,
                      pathChallengeStartTime, now>>
       /\ UNCHANGED <<cidVars, streamVars, rbVars, componentVars>>
  ELSE /\ frames' = RemoveAt(frames, FindFrame(f))
       /\ lastCall' = Returned("sent", f, FALSE, "void")
       /\ UNCHANGED <<pathChallenge, outstandingPathValidation,
                      schedulePathValidationTimeout, cancelPingTimeout,
                      pathChallengeStartTime, now>>
       /\ UNCHANGED <<cidVars, streamVars, rbVars, componentVars>>

\* A loss handler that re-arms every lost PATH_CHALLENGE, outstanding or not.
UpdateSimpleFrameOnPacketLossRearmsAny(f) ==
  /\ frames' =
       IF \/ f.type = "StopSendingFrame" /\ StreamExists(f.streamId)
          \/ f.type \in {"NewConnectionIdFrame", "MaxStreamsFrame",
                          "RetireConnectionIdFrame"}
       THEN Append(frames, f) ELSE frames
  /\ IF /\ f.type = "MinStreamDataFrame"
        /\ StreamExists(f.streamId) /\ partialReliabilityEnabled
     THEN AdvanceCurrentReceiveOffset(f.streamId, f.minimumStreamOffset)
     ELSE IF /\ f.type = "ExpiredStreamDataFrame"
             /\ StreamExists(f.streamId) /\ partialReliabilityEnabled
     THEN AdvanceMinimumRetransmittableOffset(f.streamId, f.minimumStreamOffset)
     ELSE UNCHANGED streams
  /\ pathChallenge' =
       IF f.type = "PathChallengeFrame" THEN Some(f) ELSE pathChallenge
  /\ lastCall' = Returned("lost", f, FALSE, "void")
  /\ UNCHANGED <<outstandingPathValidation, schedulePathValidationTimeout,
                 cancelPingTimeout, pathChallengeStartTime, now>>
  /\ UNCHANGED <<partialReliabilityEnabled, maxLocalBidirectionalStreams,
                 maxLocalUnidirectionalStreams>>
  /\ UNCHANGED <<cidVars, rbVars, componentVars>>

\* A loss handler that re-enqueues STOP_SENDING without looking for its stream.
UpdateSimpleFrameOnPacketLossRequeuesAll(f) ==
  /\ frames' =
       IF f.type \in {"StopSendingFrame", "NewConnectionIdFrame", "MaxStreamsFrame",
                       "RetireConnectionIdFrame"}
       THEN Append(frames, f) ELSE frames
  /\ IF /\ f.type = "MinStreamDataFrame"
        /\ StreamExists(f.streamId) /\ partialReliabilityEnabled
     THEN AdvanceCurrentReceiveOffset(f.streamId, f.minimumStreamOffset)
     ELSE IF /\ f.type = "ExpiredStreamDataFrame"
             /\ StreamExists(f.streamId) /\ partialReliabilityEnabled
     THEN AdvanceMinimumRetransmittableOffset(f.streamId, f.minimumStreamOffset)
     ELSE UNCHANGED streams
  /\ pathChallenge' =
       IF /\ f.type = "PathChallengeFrame"
          /\ HasValue(outstandingPathValidation)
          /\ f = Value(outstandingPathValidation)
       THEN Some(f) ELSE pathChallenge
  /\ lastCall' = Returned("lost", f, FALSE, "void")
  /\ UNCHANGED <<outstandingPathValidation, schedulePathValidationTimeout,
                 cancelPingTimeout, pathChallengeStartTime, now>>
  /\ UNCHANGED <<partialReliabilityEnabled, maxLocalBidirectionalStreams,
                 maxLocalUnidirectionalStreams>>
  /\ UNCHANGED <<cidVars, rbVars, componentVars>>

\* updateSimpleFrameOnPacketLoss
UpdateSimpleFrameOnPacketLoss(f) ==
  /\ frames' =
       IF \/ f.type = "StopSendingFrame" /\ StreamExists(f.streamId)
          \/ f.type \in {"NewConnectionIdFrame", "MaxStreamsFrame",
                          "RetireConnectionIdFrame"}
       THEN Append(frames, f) ELSE frames
  /\ IF /\ f.type = "MinStreamDataFrame"
        /\ StreamExists(f.streamId) /\ partialReliabilityEnabled
     THEN AdvanceCurrentReceiveOffset(f.streamId, f.minimumStreamOffset)
     ELSE IF /\ f.type = "ExpiredStreamDataFrame"
             /\ StreamExists(f.streamId) /\ partialReliabilityEnabled
     THEN AdvanceMinimumRetransmittableOffset(f.streamId, f.minimumStreamOffset)
     ELSE UNCHANGED streams
  /\ pathChallenge' =
       IF /\ f.type = "PathChallengeFrame"
          /\ HasValue(outstandingPathValidation)
          /\ f = Value(outstandingPathValidation)
       THEN Some(f) ELSE pathChallenge
  /\ lastCall' = Returned("lost", f, FALSE, "void")
  /\ UNCHANGED <<outstandingPathValidation, schedulePathValidationTimeout,
                 cancelPingTimeout, pathChallengeStartTime, now>>
  /\ UNCHANGED <<partialReliabilityEnabled, maxLocalBidirectionalStreams,
                 maxLocalUnidirectionalStreams>>
  /\ UNCHANGED <<cidVars, rbVars, componentVars>>

\* ---------------------------------------------------------- initial states
InitPending ==
  /\ frames = <<>>
  /\ pathChallenge = None
  /\ outstandingPathValidation = None
  /\ schedulePathValidationTimeout = FALSE
  /\ cancelPingTimeout = FALSE
  /\ pathChallengeStartTime = 0
  /\ now = 0
  /\ inflight = {}
  /\ lastCall = Returned("none", PingFrame, FALSE, "void")

\* The peer's initial connection id is the only element of
\* conn.peerConnectionIds before any NEW_CONNECTION_ID frame; it may be the
\* zero-length id, and it is absent before the peer's id is known.
InitPeerConnIds(peerIds) ==
  /\ nodeType \in {"Client", "Server"}
  /\ \E peer \in peerIds :
       /\ serverConnectionId = IF nodeType = "Client" THEN peer ELSE Some(ConnId(0))
       /\ clientConnectionId = IF nodeType = "Client" THEN Some(ConnId(0)) ELSE peer
       /\ peerConnectionIds =
            IF HasValue(peer)
            THEN <<ConnectionIdData(Value(peer), 0, <<0, 0>>)>>
            ELSE <<>>
  /\ selfActiveConnectionIdLimit \in 0..MaxLimit

NewStream(exists) ==
  [exists |-> exists, sendState |-> "Open", retransmissionBuffer |-> {},
   shouldSendFlowControl |-> FALSE, currentReceiveOffset |-> 0,
   minimumRetransmittableOffset |-> 0, stopSendingReceived |-> FALSE]

InitStreams ==
  /\ streams = [sid \in StreamIds |-> NewStream(sid = 0)]
  /\ partialReliabilityEnabled = FALSE
  /\ maxLocalBidirectionalStreams = 0
  /\ maxLocalUnidirectionalStreams = 0

\* No packet is outstanding.
InitNoPackets ==
  /\ outstandingPackets = << >>
  /\ nextPacketNum = 1
  /\ outstandingPacketEvents = {}
  /\ outstandingClonedPacketsCount = 0
  /\ cryptoRetransmissionBuffer = {}

\* A pacer as its constructor leaves it, on a connection whose transport
\* settings allow `limit` packets per write and tick the pacing timer every
\* time unit.
InitPacer(limit) ==
  /\ writeConnectionDataPacketsLimit = limit
  /\ pacingTimerTickInterval = 1
  /\ batchSize_ = limit
  /\ writeInterval_ = 0
  /\ scheduledWriteTime_ = None
  /\ cachedBatchSize_ = limit
  /\ appLimited_ = FALSE
  /\ tokens_ = limit

\* A rate limiter as its constructor leaves it: full credit, never checked.
InitLimiter(maxCredit) ==
  /\ maxCredit_ = maxCredit
  /\ credit_ = maxCredit
  /\ lastChecked_ = None
  /\ sentSinceReset = 0

\* No test program is driving the pacer.
InitNoDriver == pc = [at |-> "free"]

\* sizeof(QuicVersionType), the bytes of the length field a long header
\* reserves, and sizeof(Sample), the bytes header protection samples.
QuicVersionTypeSize == 4
kMaxPacketLenSize == 2
SampleSize == 16
kMaxPacketNumEncodingSize == 4

\* The bytes QuicInteger::encode writes for a value.
QuicIntegerSize(value) ==
  IF value < 64 THEN 1 ELSE IF value < 16384 THEN 2 ELSE IF value < 1073741824 THEN 4 ELSE 8

ShortHeader(connIdSize) == [form |-> "Short", connIdSize |-> connIdSize]

LongHeader(type, version, srcConnIdSize, dstConnIdSize, tokenSize) ==
  [form |-> "Long", type |-> type, version |-> version,
   srcConnIdSize |-> srcConnIdSize, dstConnIdSize |-> dstConnIdSize,
   tokenSize |-> tokenSize]

\* A space counter that goes below zero instead of stopping there.
SpaceLeftUnclamped(spaceCounter, size) == spaceCounter - size

\* What is left of a space counter once the header has taken its size.
SpaceLeft(spaceCounter, size) ==
  IF spaceCounter < size THEN 0 ELSE spaceCounter - size

\* encodeLongHeaderHelper: the space counter it leaves.
EncodeLongHeaderHelper(longHeader, spaceCounter, length) ==
  LET tokenHeaderLength ==
        IF longHeader.type = "Initial"
        THEN QuicIntegerSize(longHeader.tokenSize) + longHeader.tokenSize
        ELSE 0
      longHeaderSize ==
        IF longHeader.version = "MVFST_OLD"
        THEN 1 + QuicVersionTypeSize + 1
               + longHeader.srcConnIdSize + longHeader.dstConnIdSize
               + tokenHeaderLength + kMaxPacketLenSize + length
        ELSE 1 + QuicVersionTypeSize + 1 + longHeader.srcConnIdSize + 1
               + longHeader.dstConnIdSize
               + tokenHeaderLength + kMaxPacketLenSize + length
  IN  SpaceLeft(spaceCounter, longHeaderSize)

\* RegularQuicPacketBuilder::encodeShortHeader: the remainingBytes_ it leaves.
EncodeShortHeader(shortHeader, remainingBytes, length) ==
  IF remainingBytes < 1 + length + shortHeader.connIdSize
  THEN 0
  ELSE ((remainingBytes - 1) - shortHeader.connIdSize) - length

\* RegularQuicPacketBuilder::writeHeaderBytes
WriteHeaderBytes(header, remainingBytes, length) ==
  IF header.form = "Long"
  THEN EncodeLongHeaderHelper(header, remainingBytes, length)
  ELSE EncodeShortHeader(header, remainingBytes, length)

\* A packet builder as its constructor leaves it; `length` is the length
\* encodePacketNumber gives the packet number.
InitBuilder(remainingBytes, header, length) ==
  /\ remainingBytes_ = WriteHeaderBytes(header, remainingBytes, length)
  /\ packet_ = [header |-> header, frames |-> <<>>]
  /\ packetNumberEncoding_ = [length |-> length]
  /\ body_ = <<>>
  /\ cipherOverhead_ = 0

\* A factory that makes the writer asked for whatever the socket can do.
MakeBatchWriterAsAsked(batchingMode, batchSize, gso) ==
  [strategy |-> batchingMode,
   batchingMode |-> batchingMode,
   gso |-> gso,
   maxBufs_ |-> batchSize,
   bufs_ |-> <<>>,
   prevSize_ |-> 0]

\* BatchWriterFactory::makeBatchWriter: the writer of the mode asked for,
\* or of the mode without GSO when the socket has no GSO (gso stands for
\* sock.getGSO() >= 0); it holds nothing.
MakeBatchWriter(batchingMode, batchSize, gso) ==
  [strategy |-> CASE batchingMode = "GSO" /\ ~gso -> "NONE"
                  [] batchingMode = "SENDMMSG_GSO" /\ ~gso -> "SENDMMSG"
                  [] OTHER -> batchingMode,
   batchingMode |-> batchingMode,
   gso |-> gso,
   maxBufs_ |-> batchSize,
   bufs_ |-> <<>>,
   prevSize_ |-> 0]

\* A batch writer as makeBatchWriter leaves it, with its caller.
InitBatchWriter(batchingMode, batchSize, gso) ==
  /\ batchWriter = MakeBatchWriter(batchingMode, batchSize, gso)
  /\ batched = <<>>
  /\ mustFlush = FALSE

\* The components a specification leaves alone.
InitIdleTools ==
  /\ InitBuilder(0, ShortHeader(0), 1)
  /\ InitBatchWriter("NONE", 1, FALSE)
InitIdleComponents ==
  InitPacer(1) /\ InitNoDriver /\ InitLimiter(1) /\ InitIdleTools

\* ----------------------------------------------------------------- actions
\* A failed CHECK ends the process.
Running == lastCall.result # "abort"

\* A frame of a received packet is dispatched to the simple-frame processor.
PacketReceived(f, changed) ==
  /\ Running
  /\ f.type = "PathChallengeFrame" => Len(frames) < MaxPending
  /\ UpdateSimpleFrameOnPacketReceived(f, changed)

\* The writer puts a pending simple frame into a packet and sends it.
PacketSent(f) ==
  /\ Running
  /\ UpdateSimpleFrameOnPacketSent(f)
  /\ inflight' = IF lastCall'.result = "abort" THEN inflight ELSE inflight \cup {f}

\* A packet carrying the simple frame f is declared lost.
PacketLost(f) ==
  /\ Running
  /\ f.type \in {"StopSendingFrame", "NewConnectionIdFrame", "MaxStreamsFrame",
                  "RetireConnectionIdFrame"} => Len(frames) < MaxPending
  /\ UpdateSimpleFrameOnPacketLoss(f)
  /\ inflight' = inflight \ {f}

\* A packet carrying the simple frame f is acknowledged.
PacketAcked(f) ==
  /\ Running
  /\ UpdateSimpleFrameOnAck(f)
  /\ inflight' = inflight \ {f}

\* The transport starts validating a new path: it arms a PATH_CHALLENGE.
StartPathValidation(d) ==
  /\ Running
  /\ pathChallenge' = Some(PathChallengeFrame(d))
  /\ lastCall' = Returned("startPathValidation", PathChallengeFrame(d), FALSE, "void")
  /\ UNCHANGED <<frames, outstandingPathValidation, schedulePathValidationTimeout,
                 cancelPingTimeout, pathChallengeStartTime, now, inflight>>
  /\ UNCHANGED <<cidVars, streamVars, rbVars, componentVars>>

\* Time passes.
Tick ==
  /\ Running
  /\ now < MaxClock
  /\ now' = now + 1
  /\ lastCall' = Returned("tick", PingFrame, FALSE, "void")
  /\ UNCHANGED <<frames, pathChallenge, outstandingPathValidation,
                 schedulePathValidationTimeout, cancelPingTimeout,
                 pathChallengeStartTime, inflight>>
  /\ UNCHANGED <<cidVars, streamVars, rbVars, componentVars>>

\* -------------------------------- specification: peer connection-id store
InitConnIds ==
  /\ InitPending
  /\ InitNoPackets
  /\ InitIdleComponents
  /\ InitPeerConnIds({None, Some(ZeroLengthConnId), Some(InitialPeerConnId)})
  /\ InitStreams

NextConnIds ==
  \E f \in NewConnectionIdFrames \cup {PathChallengeFrame(1)} :
    PacketReceived(f, TRUE)

SpecConnIds == InitConnIds /\ [][NextConnIds]_vars

\* ------------------------------------------ specification: path validation
\* The peer has issued some connection ids beyond the initial one.
InitSpareConnIds ==
  /\ nodeType = "Client"
  /\ clientConnectionId = Some(ConnId(0))
  /\ serverConnectionId = Some(InitialPeerConnId)
  /\ selfActiveConnectionIdLimit = MaxLimit
  /\ \E k \in 0..MaxLimit :
       peerConnectionIds =
         [i \in 1..(k + 1) |->
            IF i = 1 THEN ConnectionIdData(InitialPeerConnId, 0, <<0, 0>>)
            ELSE ConnectionIdData(ConnId(i), i - 1, <<i, i - 1>>)]

InitPathValidation ==
  InitPending /\ InitSpareConnIds /\ InitStreams /\ InitNoPackets
    /\ InitIdleComponents

NextPathValidation ==
  \/ \E d \in PathDatas : StartPathValidation(d)
  \/ \E f \in pathChallenge \cup {frames[i] : i \in 1..Len(frames)} : PacketSent(f)
  \/ \E f \in inflight : PacketLost(f)
  \/ \E f \in inflight : PacketAcked(f)
  \/ \E f \in PathChallengeFrames \cup PathResponseFrames, changed \in BOOLEAN :
       PacketReceived(f, changed)
  \/ Tick

SpecPathValidation == InitPathValidation /\ [][NextPathValidation]_vars

\* ------------------------------- specification: pending simple-frame queue
\* One frame of each simple-frame type.
SimpleFrames ==
  {PingFrame, StopSendingFrame(0), MinStreamDataFrame(0, 1),
   ExpiredStreamDataFrame(0, 1), PathChallengeFrame(1), PathResponseFrame(1),
   NewConnectionIdFrame(1, 0, ConnId(2), <<2, 1>>), MaxStreamsFrame(1, TRUE),
   RetireConnectionIdFrame(0)}

\* The frames the transport queues with sendSimpleFrame.
QueuedFrames ==
  {f \in SimpleFrames : f.type \notin {"PathChallengeFrame", "PathResponseFrame"}}

\* The transport queues a simple frame for the next packet.
QueueFrame(f) ==
  /\ Running
  /\ Len(frames) < MaxPending
  /\ SendSimpleFrame(f)

\* A packet carrying the simple frame f is sent while fewer than MaxInflight
\* simple frames are in flight.
PacketSentInWindow(f) ==
  /\ Cardinality(inflight) < MaxInflight
  /\ PacketSent(f)

\* The stream manager removes a closed stream.
CloseStream(sid) ==
  /\ Running
  /\ StreamExists(sid)
  /\ streams' = [streams EXCEPT ![sid].exists = FALSE]
  /\ lastCall' = Returned("closeStream", PingFrame, FALSE, "void")
  /\ UNCHANGED <<partialReliabilityEnabled, maxLocalBidirectionalStreams,
                 maxLocalUnidirectionalStreams>>
  /\ UNCHANGED <<sfVars, cidVars, rbVars, componentVars>>

InitFrameQueue ==
  InitPending /\ InitPeerConnIds({Some(InitialPeerConnId)}) /\ nodeType = "Client"
    /\ selfActiveConnectionIdLimit = 0 /\ InitStreams /\ InitNoPackets
    /\ InitIdleComponents

NextFrameQueue ==
  \/ \E f \in QueuedFrames : QueueFrame(f)
  \/ \E f \in SimpleFrames \ {PathChallengeFrame(1)} : PacketSentInWindow(f)
  \/ \E f \in inflight : PacketLost(f)
  \/ \E f \in inflight : PacketAcked(f)
  \/ \E sid \in StreamIds : CloseStream(sid)

SpecFrameQueue == InitFrameQueue /\ [][NextFrameQueue]_vars

\* ---------------------------------- specification: simple-frame dispatch
\* The cloning scheduler asks whether the simple frame f of an outstanding
\* packet goes into the clone.
PacketCloned(f) ==
  /\ Running
  /\ LET updated == UpdateSimpleFrameOnPacketClone(f)
     IN lastCall' = [op |-> "cloned", frame |-> f, fromChangedPeerAddress |-> FALSE,
                     result |-> IF HasValue(updated) THEN "frame" ELSE "none",
                     returned |-> updated]
  /\ UNCHANGED <<sfVars, cidVars, streamVars, rbVars, componentVars>>

\* A connection in mid-life: stream 0 is open or already gone, partial
\* reliability is on or off, a path validation may be outstanding, and the
\* peer may have issued spare connection ids.
InitFrameDispatch ==
  /\ frames = <<>>
  /\ pathChallenge = None
  /\ outstandingPathValidation \in {None} \cup {Some(f) : f \in PathChallengeFrames}
  /\ schedulePathValidationTimeout = HasValue(outstandingPathValidation)
  /\ cancelPingTimeout = FALSE
  /\ pathChallengeStartTime = 0
  /\ now = 0
  /\ inflight = {}
  /\ lastCall = Returned("none", PingFrame, FALSE, "void")
  /\ InitSpareConnIds
  /\ \E open \in BOOLEAN : streams = [sid \in StreamIds |-> NewStream(open /\ sid = 0)]
  /\ partialReliabilityEnabled \in BOOLEAN
  /\ maxLocalBidirectionalStreams = 0
  /\ maxLocalUnidirectionalStreams = 0
  /\ InitNoPackets
  /\ InitIdleComponents

NextFrameDispatch ==
  \/ \E f \in SimpleFrames : PacketReceived(f, FALSE)
  \/ \E f \in SimpleFrames : PacketCloned(f)

SpecFrameDispatch == InitFrameDispatch /\ [][NextFrameDispatch]_vars

\* ---------------------------------------------------------- write frames
WriteAckFrame == [type |-> "WriteAckFrame"]
PaddingFrame == [type |-> "PaddingFrame"]
WriteStreamFrame(sid, off, len, fin) ==
  [type |-> "WriteStreamFrame", streamId |-> sid, offset |-> off, len |-> len,
   fin |-> fin]
WriteCryptoFrame(off, len) == [type |-> "WriteCryptoFrame", offset |-> off, len |-> len]
MaxDataFrame == [type |-> "MaxDataFrame"]
MaxStreamDataFrame(sid) == [type |-> "MaxStreamDataFrame", streamId |-> sid]
RstStreamFrame(sid) == [type |-> "RstStreamFrame", streamId |-> sid]
QuicSimpleFrame(f) == [type |-> "QuicSimpleFrame", frame |-> f]

\* An entry of a retransmission buffer, keyed by its offset.
StreamBuffer(off, len, eof) == [offset |-> off, len |-> len, eof |-> eof]

\* ------------------------------------------------------------ write codec
\* The bytes a frame takes in the packet: one unit for the frame's header
\* and one unit for each byte of stream or crypto data.
FrameSize(f) ==
  IF f.type \in {"WriteStreamFrame", "WriteCryptoFrame"} THEN 1 + f.len ELSE 1

Min(a, b) == IF a < b THEN a ELSE b

\* writeStreamFrameHeader: the data length that fits after the header, or
\* none when the header does not fit.
WriteStreamFrameHeader(space, bufferLen) ==
  IF space < 1 THEN None ELSE Some(Min(bufferLen, space - 1))

\* retransmittable(stream): the stream still sends (it is not closed or reset).
Retransmittable(sid) == streams[sid].sendState = "Open"

\* streamFrameMatchesRetransmitBuffer: offset, length and FIN agree.
StreamFrameMatchesRetransmitBuffer(frame, buf) ==
  buf.offset = frame.offset /\ buf.len = frame.len /\ buf.eof = frame.fin

\* ------------------------------------------------------- packet rebuilder
\* A clone that hands out the frame's data whatever the buffer holds.
CloneRetransmissionBufferUnmatched(frame) == frame.len

\* PacketRebuilder::cloneRetransmissionBuffer: the length of the data cloned
\* for the frame (0 for the null buffer).
CloneRetransmissionBuffer(frame) ==
  LET found == {b \in streams[frame.streamId].retransmissionBuffer :
                  b.offset = frame.offset}
  IN IF found # {} /\ StreamFrameMatchesRetransmitBuffer(frame, CHOOSE b \in found : TRUE)
     THEN frame.len
     ELSE 0

\* PacketRebuilder::cloneCryptoRetransmissionBuffer: the length of the data
\* cloned for the frame, or none when the offset is not in the buffer.
CloneCryptoRetransmissionBuffer(frame) ==
  LET found == {b \in cryptoRetransmissionBuffer : b.offset = frame.offset}
  IN IF found = {} THEN None ELSE Some((CHOOSE b \in found : TRUE).len)

\* The locals of rebuildFromPacket before its loop, with the builder's
\* remaining space and the frames written to the builder so far.
RebuildStart(space) ==
  [space |-> space, written |-> << >>, examined |-> 0, returned |-> FALSE,
   aborted |-> FALSE, writeSuccess |-> FALSE, windowUpdateWritten |-> FALSE,
   shouldWriteWindowUpdate |-> FALSE, notPureAck |-> FALSE]

\* A frame is written to the builder if it fits: writeFrame and its kin
\* return 0 (or none) and write nothing when it does not.
Fits(st, f) == FrameSize(f) <= st.space
Emit(st, f) ==
  [st EXCEPT !.space = @ - FrameSize(f), !.written = Append(@, f)]

\* One iteration of the loop of rebuildFromPacket on frame f of the packet.
RebuildFrame(st, f, isHandshake) ==
  CASE f.type = "WriteAckFrame" ->
         IF Fits(st, f) THEN [Emit(st, f) EXCEPT !.writeSuccess = TRUE]
         ELSE [st EXCEPT !.writeSuccess = FALSE]
    [] f.type = "WriteStreamFrame" ->
         IF StreamExists(f.streamId) /\ Retransmittable(f.streamId)
         THEN LET bufferLen == CloneRetransmissionBuffer(f)
                  dataLen == WriteStreamFrameHeader(st.space, bufferLen)
              IN IF HasValue(dataLen) /\ Value(dataLen) = f.len
                 THEN [Emit(st, f) EXCEPT !.notPureAck = TRUE, !.writeSuccess = TRUE]
                 ELSE [st EXCEPT !.writeSuccess = FALSE]
         ELSE [st EXCEPT !.writeSuccess = TRUE]
    [] f.type = "WriteCryptoFrame" ->
         IF isHandshake THEN [st EXCEPT !.aborted = TRUE, !.writeSuccess = FALSE]
         ELSE LET buf == CloneCryptoRetransmissionBuffer(f)
              IN IF ~HasValue(buf) THEN [st EXCEPT !.writeSuccess = TRUE]
                 ELSE IF Fits(st, f) /\ Value(buf) = f.len
                 THEN [Emit(st, f) EXCEPT !.notPureAck = TRUE, !.writeSuccess = TRUE]
                 ELSE [st EXCEPT !.writeSuccess = FALSE]
    [] f.type = "MaxDataFrame" ->
         IF Fits(st, f)
         THEN [Emit(st, f) EXCEPT !.shouldWriteWindowUpdate = TRUE,
                                  !.windowUpdateWritten = TRUE,
                                  !.notPureAck = TRUE, !.writeSuccess = TRUE]
         ELSE [st EXCEPT !.shouldWriteWindowUpdate = TRUE, !.writeSuccess = TRUE]
    [] f.type = "MaxStreamDataFrame" ->
         IF ~StreamExists(f.streamId) \/ ~streams[f.streamId].shouldSendFlowControl
         THEN [st EXCEPT !.writeSuccess = TRUE]
         ELSE IF Fits(st, f)
         THEN [Emit(st, f) EXCEPT !.shouldWriteWindowUpdate = TRUE,
                                  !.windowUpdateWritten = TRUE,
                                  !.notPureAck = TRUE, !.writeSuccess = TRUE]
         ELSE [st EXCEPT !.shouldWriteWindowUpdate = TRUE, !.writeSuccess = TRUE]
    [] f.type = "PaddingFrame" ->
         IF Fits(st, f) THEN [Emit(st, f) EXCEPT !.writeSuccess = TRUE]
         ELSE [st EXCEPT !.writeSuccess = FALSE]
    [] f.type = "QuicSimpleFrame" ->
         LET updated == UpdateSimpleFrameOnPacketClone(f.frame)
         IN IF ~HasValue(updated) THEN [st EXCEPT !.writeSuccess = TRUE]
            ELSE IF Fits(st, f)
            THEN [Emit(st, QuicSimpleFrame(Value(updated)))
                    EXCEPT !.notPureAck = TRUE, !.writeSuccess = TRUE]
            ELSE [st EXCEPT !.writeSuccess = FALSE]
    [] OTHER ->
         IF Fits(st, f)
         THEN [Emit(st, f) EXCEPT !.notPureAck = TRUE, !.writeSuccess = TRUE]
         ELSE [st EXCEPT !.writeSuccess = FALSE]

\* A loop that goes on to the next frame after a frame that was not written.
RECURSIVE RebuildLoopKeepsGoing(_, _, _, _)
RebuildLoopKeepsGoing(st, fs, i, isHandshake) ==
  IF i > Len(fs) THEN st
  ELSE RebuildLoopKeepsGoing([RebuildFrame(st, fs[i], isHandshake) EXCEPT !.examined = i],
                             fs, i + 1, isHandshake)

\* The loop of rebuildFromPacket from frame i on: it returns at the first
\* frame that leaves writeSuccess false.
RECURSIVE RebuildLoop(_, _, _, _)
RebuildLoop(st, fs, i, isHandshake) ==
  IF i > Len(fs) THEN st
  ELSE LET next == [RebuildFrame(st, fs[i], isHandshake) EXCEPT !.examined = i]
       IN IF next.aborted THEN next
          ELSE IF ~next.writeSuccess THEN [next EXCEPT !.returned = TRUE]
          ELSE RebuildLoop(next, fs, i + 1, isHandshake)

\* A test that clones whatever the loop got through.
ShouldCloneAnything(st) == ~st.returned

\* A test that refuses the clone whenever a due window update was not
\* written, whatever else was.
ShouldCloneNeedsWindowUpdate(st) ==
  /\ ~st.returned
  /\ ~(\/ ~st.notPureAck
       \/ (st.shouldWriteWindowUpdate /\ ~st.windowUpdateWritten))

\* The test after the loop of rebuildFromPacket: TRUE when the packet is
\* to be cloned.
ShouldClone(st) ==
  /\ ~st.returned
  /\ ~(\/ ~st.notPureAck
       \/ (st.shouldWriteWindowUpdate /\ ~st.windowUpdateWritten /\ ~st.writeSuccess))

\* The two DCHECKs of cloneOutstandingPacket on packet pn.
CloneAssertionsHold(pn) ==
  LET packet == outstandingPackets[pn]
  IN /\ ~HasValue(packet.associatedEvent)
        \/ Value(packet.associatedEvent) \in outstandingPacketEvents
     /\ ~HasValue(packet.associatedEvent) => pn \notin outstandingPacketEvents

\* PacketRebuilder::cloneOutstandingPacket: the event returned.
ClonedEvent(pn) ==
  IF HasValue(outstandingPackets[pn].associatedEvent)
  THEN outstandingPackets[pn].associatedEvent
  ELSE Some(pn)

\* A clone that mints an event on every call.
CloneOutstandingPacketMintsAgain(pn) ==
  /\ outstandingPackets' =
       [outstandingPackets EXCEPT ![pn].associatedEvent = Some(pn)]
  /\ outstandingPacketEvents' = outstandingPacketEvents \cup {pn}
  /\ outstandingClonedPacketsCount' = outstandingClonedPacketsCount + 1

\* A clone that sets the packet's event without recording it in the set.
CloneOutstandingPacketForgetsEvent(pn) ==
  IF ~HasValue(outstandingPackets[pn].associatedEvent)
  THEN /\ outstandingPackets' =
            [outstandingPackets EXCEPT ![pn].associatedEvent = Some(pn)]
       /\ outstandingClonedPacketsCount' = outstandingClonedPacketsCount + 1
       /\ UNCHANGED outstandingPacketEvents
  ELSE UNCHANGED <<outstandingPackets, outstandingPacketEvents,
                   outstandingClonedPacketsCount>>

\* A clone that counts every clone made of the packet.
CloneOutstandingPacketCountsEvery(pn) ==
  /\ outstandingPackets' =
       [outstandingPackets EXCEPT ![pn].associatedEvent = Some(pn)]
  /\ outstandingPacketEvents' = outstandingPacketEvents \cup {pn}
  /\ outstandingClonedPacketsCount' =
       IF outstandingClonedPacketsCount < MaxPackets
       THEN outstandingClonedPacketsCount + 1
       ELSE outstandingClonedPacketsCount

\* PacketRebuilder::cloneOutstandingPacket: its effect on the connection.
CloneOutstandingPacket(pn) ==
  IF ~HasValue(outstandingPackets[pn].associatedEvent)
  THEN /\ outstandingPackets' =
            [outstandingPackets EXCEPT ![pn].associatedEvent = Some(pn)]
       /\ outstandingPacketEvents' = outstandingPacketEvents \cup {pn}
       /\ outstandingClonedPacketsCount' = outstandingClonedPacketsCount + 1
  ELSE UNCHANGED <<outstandingPackets, outstandingPacketEvents,
                   outstandingClonedPacketsCount>>

\* PacketRebuilder::rebuildFromPacket on the outstanding packet pn, with a
\* builder that has `space` bytes left.
RebuildFromPacket(pn, space) ==
  LET packet == outstandingPackets[pn]
      st == RebuildLoop(RebuildStart(space), packet.frames, 1, packet.isHandshake)
      clone == ShouldClone(st) /\ ~st.aborted
  IN /\ IF clone
        THEN CloneOutstandingPacket(pn)
        ELSE UNCHANGED <<outstandingPackets, outstandingPacketEvents,
                         outstandingClonedPacketsCount>>
     /\ lastCall' =
          [op |-> "rebuildFromPacket", packet |-> pn, space |-> space,
           result |-> IF st.aborted THEN "abort" ELSE "returned",
           event |-> IF clone THEN ClonedEvent(pn) ELSE None,
           written |-> st.written, examined |-> st.examined,
           assertionsHeld |-> clone => CloneAssertionsHold(pn)]
     /\ UNCHANGED <<nextPacketNum, cryptoRetransmissionBuffer>>
     /\ UNCHANGED <<sfVars, cidVars, streamVars, componentVars>>

\* ----------------------------------- specification: packet rebuilder
\* An outstanding packet.  `origin` is the packet number of the packet it
\* was first sent as (its own number unless it was sent as a clone).
OutstandingPacket(fs, hs, event, orig) ==
  [frames |-> fs, isHandshake |-> hs, associatedEvent |-> event, origin |-> orig]

\* The stream data and the crypto data the packets carry.
StreamData == WriteStreamFrame(0, 0, 1, FALSE)
CryptoData == WriteCryptoFrame(0, 1)

\* The packets the connection sends: frame list and handshake flag.
PacketShapes ==
  {[frames |-> fs, isHandshake |-> FALSE] :
     fs \in {<< >>,
             <<WriteAckFrame, PaddingFrame>>,
             <<StreamData>>,
             <<WriteAckFrame, StreamData>>,
             <<StreamData, QuicSimpleFrame(PingFrame)>>,
             <<QuicSimpleFrame(PathResponseFrame(1))>>,
             <<QuicSimpleFrame(PingFrame), MaxDataFrame>>,
             <<MaxStreamDataFrame(4), MaxStreamDataFrame(0)>>,
             <<CryptoData>>,
             <<RstStreamFrame(0), WriteAckFrame>>}}
  \cup {[frames |-> <<CryptoData>>, isHandshake |-> TRUE]}

FramesOf(fs) == {fs[i] : i \in 1..Len(fs)}
StreamFramesOf(fs) == {f \in FramesOf(fs) : f.type = "WriteStreamFrame"}
CryptoFramesOf(fs) == {f \in FramesOf(fs) : f.type = "WriteCryptoFrame"}
Outstanding == DOMAIN outstandingPackets

\* The function f without the argument x.
Without(f, x) == [y \in DOMAIN f \ {x} |-> f[y]]
\* The function f with the new argument x mapped to v.
With(f, x, v) == [y \in DOMAIN f \cup {x} |-> IF y = x THEN v ELSE f[y]]

RebuilderEnvVars == <<sfVars, cidVars, componentVars, partialReliabilityEnabled,
                      maxLocalBidirectionalStreams, maxLocalUnidirectionalStreams>>

\* The connection sends a new packet: it becomes outstanding under the next
\* packet number, and its stream and crypto data enter the retransmission
\* buffers.
SendPacket(shape) ==
  /\ Running
  /\ nextPacketNum <= MaxPackets
  /\ \A f \in StreamFramesOf(shape.frames) :
       /\ StreamExists(f.streamId) /\ Retransmittable(f.streamId)
       /\ \A b \in streams[f.streamId].retransmissionBuffer : b.offset # f.offset
  /\ \A f \in CryptoFramesOf(shape.frames) :
       \A b \in cryptoRetransmissionBuffer : b.offset # f.offset
  /\ outstandingPackets' =
       With(outstandingPackets, nextPacketNum,
            OutstandingPacket(shape.frames, shape.isHandshake, None, nextPacketNum))
  /\ nextPacketNum' = nextPacketNum + 1
  /\ streams' =
       [sid \in DOMAIN streams |->
          [streams[sid] EXCEPT !.retransmissionBuffer =
             @ \cup {StreamBuffer(f.offset, f.len, f.fin) :
                       f \in {g \in StreamFramesOf(shape.frames) : g.streamId = sid}}]]
  /\ cryptoRetransmissionBuffer' =
       cryptoRetransmissionBuffer
         \cup {StreamBuffer(f.offset, f.len, FALSE) : f \in CryptoFramesOf(shape.frames)}
  /\ lastCall' = Returned("packetSent", PingFrame, FALSE, "void")
  /\ UNCHANGED <<outstandingPacketEvents, outstandingClonedPacketsCount>>
  /\ UNCHANGED RebuilderEnvVars

\* The cloning scheduler rebuilds an outstanding packet into a builder with
\* `space` bytes left.  Handshake packets are not cloneable.
Rebuild(pn, space) ==
  /\ Running
  /\ pn \in Outstanding
  /\ ~outstandingPackets[pn].isHandshake
  /\ RebuildFromPacket(pn, space)

\* The packet built by the last rebuild is sent: the clone becomes
\* outstanding under the next packet number and carries the clone event.
SendClone ==
  /\ Running
  /\ lastCall.op = "rebuildFromPacket"
  /\ HasValue(lastCall.event)
  /\ nextPacketNum <= MaxPackets
  /\ outstandingPackets' =
       With(outstandingPackets, nextPacketNum,
            OutstandingPacket(lastCall.written, FALSE, lastCall.event,
                              outstandingPackets[lastCall.packet].origin))
  /\ nextPacketNum' = nextPacketNum + 1
  /\ lastCall' = Returned("cloneSent", PingFrame, FALSE, "void")
  /\ UNCHANGED <<outstandingPacketEvents, outstandingClonedPacketsCount,
                 cryptoRetransmissionBuffer, streamVars>>
  /\ UNCHANGED <<sfVars, cidVars, componentVars>>

\* An outstanding packet is acknowledged or declared lost: it leaves the
\* outstanding list, its stream and crypto data leave the retransmission
\* buffers, and its clone event leaves the set once no outstanding packet
\* carries it.
PacketGone(pn) ==
  /\ Running
  /\ pn \in Outstanding
  /\ LET packet == outstandingPackets[pn]
         rest == Without(outstandingPackets, pn)
     IN /\ outstandingPackets' = rest
        /\ outstandingPacketEvents' =
             {e \in outstandingPacketEvents :
                \E q \in DOMAIN rest : rest[q].associatedEvent = Some(e)}
        /\ streams' =
             [sid \in DOMAIN streams |->
                [streams[sid] EXCEPT !.retransmissionBuffer =
                   {b \in @ : \A f \in StreamFramesOf(packet.frames) :
                                f.streamId = sid => f.offset # b.offset}]]
        /\ cryptoRetransmissionBuffer' =
             {b \in cryptoRetransmissionBuffer :
                \A f \in CryptoFramesOf(packet.frames) : f.offset # b.offset}
  /\ lastCall' = Returned("packetGone", PingFrame, FALSE, "void")
  /\ UNCHANGED <<nextPacketNum, outstandingClonedPacketsCount>>
  /\ UNCHANGED RebuilderEnvVars

\* The application resets a stream: it stops sending and drops its
\* retransmission buffer.
ResetStream(sid) ==
  /\ Running
  /\ StreamExists(sid) /\ Retransmittable(sid)
  /\ streams' = [streams EXCEPT ![sid].sendState = "ResetSent",
                                ![sid].retransmissionBuffer = {}]
  /\ lastCall' = Returned("resetStream", PingFrame, FALSE, "void")
  /\ UNCHANGED <<rbVars, RebuilderEnvVars>>

InitRebuilder ==
  /\ InitPending
  /\ nodeType = "Client"
  /\ serverConnectionId = Some(InitialPeerConnId)
  /\ clientConnectionId = Some(ConnId(0))
  /\ peerConnectionIds = <<ConnectionIdData(InitialPeerConnId, 0, <<0, 0>>)>>
  /\ selfActiveConnectionIdLimit = 0
  /\ streams = [sid \in StreamIds |->
                  [NewStream(sid = 0) EXCEPT !.shouldSendFlowControl = (sid = 0)]]
  /\ partialReliabilityEnabled = FALSE
  /\ maxLocalBidirectionalStreams = 0
  /\ maxLocalUnidirectionalStreams = 0
  /\ InitNoPackets
  /\ InitIdleComponents

NextRebuilder ==
  \/ \E shape \in PacketShapes : SendPacket(shape)
  \/ \E pn \in 1..MaxPackets, space \in 0..MaxSpace : Rebuild(pn, space)
  \/ SendClone
  \/ \E pn \in 1..MaxPackets : PacketGone(pn)
  \/ \E sid \in StreamIds : ResetStream(sid)

SpecRebuilder == InitRebuilder /\ [][NextRebuilder]_vars

\* ------------------------------------------------------------------- pacer
\* What an injected PacingRateCalculator returns.
PacingRate(interval, burstSize) == [interval |-> interval, burstSize |-> burstSize]

PacingRates ==
  {PacingRate(i, b) : i \in 0..MaxInterval, b \in 0..MaxBurst}

\* The instants a caller passes as currentTime.
TimePoints == 0..MaxTime

\* A quotient rounded down.
Floor(n, d) == n \div d

\* std::ceil of the real quotient n / d, for n >= 0 and d > 0.
Ceil(n, d) == (n + d - 1) \div d

\* A call on the pacer returned; `arg` is what it was called with (for
\* updateAndGetWriteBatchSize, together with the scheduled-write stamp it
\* found) and `returned` the value it returned (0 for a void method).
PacerReturned(op, arg, returned) ==
  [op |-> op, arg |-> arg, result |-> "returned", returned |-> returned]

\* A refresh that asks the rate calculator whatever the rtt.
RefreshPacingRateAlwaysPaces(rtt, rate) ==
  /\ Running
  /\ writeInterval_' = rate.interval
  /\ batchSize_' = rate.burstSize
  /\ tokens_' = tokens_ + rate.burstSize
  /\ cachedBatchSize_' = batchSize_'
  /\ lastCall' = PacerReturned("refreshPacingRate", [rtt |-> rtt, rate |-> rate], 0)
  /\ UNCHANGED <<writeConnectionDataPacketsLimit, pacingTimerTickInterval,
                 scheduledWriteTime_, appLimited_>>
  /\ UNCHANGED nonPacerVars

\* A refresh that replaces the tokens by the new burst.
RefreshPacingRateReplaces(rtt, rate) ==
  /\ Running
  /\ IF rtt < pacingTimerTickInterval
     THEN /\ writeInterval_' = 0
          /\ batchSize_' = writeConnectionDataPacketsLimit
          /\ UNCHANGED tokens_
     ELSE /\ writeInterval_' = rate.interval
          /\ batchSize_' = rate.burstSize
          /\ tokens_' = rate.burstSize
  /\ cachedBatchSize_' = batchSize_'
  /\ lastCall' = PacerReturned("refreshPacingRate", [rtt |-> rtt, rate |-> rate], 0)
  /\ UNCHANGED <<writeConnectionDataPacketsLimit, pacingTimerTickInterval,
                 scheduledWriteTime_, appLimited_>>
  /\ UNCHANGED nonPacerVars

\* DefaultPacer::refreshPacingRate; `rate` is what the pacing rate calculator
\* returns for this call's cwnd and rtt.
RefreshPacingRate(rtt, rate) ==
  /\ Running
  /\ IF rtt < pacingTimerTickInterval
     THEN /\ writeInterval_' = 0
          /\ batchSize_' = writeConnectionDataPacketsLimit
          /\ UNCHANGED tokens_
     ELSE /\ writeInterval_' = rate.interval
          /\ batchSize_' = rate.burstSize
          /\ tokens_' = tokens_ + rate.burstSize
  /\ cachedBatchSize_' = batchSize_'
  /\ lastCall' = PacerReturned("refreshPacingRate", [rtt |-> rtt, rate |-> rate], 0)
  /\ UNCHANGED <<writeConnectionDataPacketsLimit, pacingTimerTickInterval,
                 scheduledWriteTime_, appLimited_>>
  /\ UNCHANGED nonPacerVars

\* A scheduled write that leaves no stamp.
OnPacedWriteScheduledForgets(currentTime) ==
  /\ Running
  /\ scheduledWriteTime_' = None
  /\ lastCall' = PacerReturned("onPacedWriteScheduled", currentTime, 0)
  /\ UNCHANGED <<writeConnectionDataPacketsLimit, pacingTimerTickInterval,
                 batchSize_, writeInterval_, cachedBatchSize_, appLimited_, tokens_>>
  /\ UNCHANGED nonPacerVars

\* DefaultPacer::onPacedWriteScheduled
OnPacedWriteScheduled(currentTime) ==
  /\ Running
  /\ scheduledWriteTime_' = Some(currentTime)
  /\ lastCall' = PacerReturned("onPacedWriteScheduled", currentTime, 0)
  /\ UNCHANGED <<writeConnectionDataPacketsLimit, pacingTimerTickInterval,
                 batchSize_, writeInterval_, cachedBatchSize_, appLimited_, tokens_>>
  /\ UNCHANGED nonPacerVars

\* A send that takes a token whether or not one is left.
OnPacketSentUnguarded ==
  /\ Running
  /\ tokens_' = tokens_ - 1
  /\ lastCall' = PacerReturned("onPacketSent", 0, 0)
  /\ UNCHANGED <<writeConnectionDataPacketsLimit, pacingTimerTickInterval,
                 batchSize_, writeInterval_, scheduledWriteTime_,
                 cachedBatchSize_, appLimited_>>
  /\ UNCHANGED nonPacerVars

\* DefaultPacer::onPacketSent
OnPacketSent ==
  /\ Running
  /\ tokens_' = IF tokens_ # 0 THEN tokens_ - 1 ELSE tokens_
  /\ lastCall' = PacerReturned("onPacketSent", 0, 0)
  /\ UNCHANGED <<writeConnectionDataPacketsLimit, pacingTimerTickInterval,
                 batchSize_, writeInterval_, scheduledWriteTime_,
                 cachedBatchSize_, appLimited_>>
  /\ UNCHANGED nonPacerVars

\* DefaultPacer::onPacketsLoss
OnPacketsLoss ==
  /\ Running
  /\ tokens_' = 0
  /\ lastCall' = PacerReturned("onPacketsLoss", 0, 0)
  /\ UNCHANGED <<writeConnectionDataPacketsLimit, pacingTimerTickInterval,
                 batchSize_, writeInterval_, scheduledWriteTime_,
                 cachedBatchSize_, appLimited_>>
  /\ UNCHANGED nonPacerVars

\* A batch size that does not look at the app-limited flag.
WriteBatchSizeIgnoresAppLimited(currentTime) ==
  IF writeInterval_ = 0
  THEN [cachedBatchSize |-> cachedBatchSize_, tokens |-> tokens_,
        returned |-> batchSize_]
  ELSE IF ~HasValue(scheduledWriteTime_) \/ Value(scheduledWriteTime_) >= currentTime
  THEN [cachedBatchSize |-> cachedBatchSize_, tokens |-> tokens_,
        returned |-> tokens_]
  ELSE LET adjustedInterval ==
             currentTime - Value(scheduledWriteTime_) + writeInterval_
           cached == Ceil(adjustedInterval * batchSize_, writeInterval_)
           tokens == tokens_ + (IF cached > batchSize_ THEN cached - batchSize_ ELSE 0)
       IN  [cachedBatchSize |-> cached, tokens |-> tokens, returned |-> tokens]

\* The body of DefaultPacer::updateAndGetWriteBatchSize before its scope
\* exit: the cached batch size and the tokens it leaves, and what it returns.
WriteBatchSize(currentTime) ==
  IF appLimited_
  THEN [cachedBatchSize |-> writeConnectionDataPacketsLimit, tokens |-> tokens_,
        returned |-> writeConnectionDataPacketsLimit]
  ELSE IF writeInterval_ = 0
  THEN [cachedBatchSize |-> cachedBatchSize_, tokens |-> tokens_,
        returned |-> batchSize_]
  ELSE IF ~HasValue(scheduledWriteTime_) \/ Value(scheduledWriteTime_) >= currentTime
  THEN [cachedBatchSize |-> cachedBatchSize_, tokens |-> tokens_,
        returned |-> tokens_]
  ELSE LET adjustedInterval ==
             currentTime - Value(scheduledWriteTime_) + writeInterval_
           cached == Ceil(adjustedInterval * batchSize_, writeInterval_)
           tokens == tokens_ + (IF cached > batchSize_ THEN cached - batchSize_ ELSE 0)
       IN  [cachedBatchSize |-> cached, tokens |-> tokens, returned |-> tokens]

\* The stamp survives the call.
ScheduledWriteTimeKept == scheduledWriteTime_

\* SCOPE_EXIT of DefaultPacer::updateAndGetWriteBatchSize: what the
\* scheduled-write stamp is when the call has returned.
ScheduledWriteTimeOnExit == None

\* DefaultPacer::updateAndGetWriteBatchSize
UpdateAndGetWriteBatchSize(currentTime) ==
  /\ Running
  /\ LET batch == WriteBatchSize(currentTime)
     IN  /\ cachedBatchSize_' = batch.cachedBatchSize
         /\ tokens_' = batch.tokens
         /\ lastCall' = PacerReturned("updateAndGetWriteBatchSize",
                                      [currentTime |-> currentTime,
                                       scheduledWriteTime |-> scheduledWriteTime_],
                                      batch.returned)
  /\ scheduledWriteTime_' = ScheduledWriteTimeOnExit
  /\ UNCHANGED <<writeConnectionDataPacketsLimit, pacingTimerTickInterval,
                 batchSize_, writeInterval_, appLimited_>>
  /\ UNCHANGED nonPacerVars

\* The wait of a pacer that never lets a write go at once.
TimeUntilNextWriteAlwaysWaits == writeInterval_

\* The wait of a pacer that forgets it is app-limited.
TimeUntilNextWriteOfTokens == IF tokens_ # 0 THEN 0 ELSE writeInterval_

\* What DefaultPacer::getTimeUntilNextWrite returns.
TimeUntilNextWrite == IF appLimited_ \/ tokens_ # 0 THEN 0 ELSE writeInterval_

\* DefaultPacer::getTimeUntilNextWrite
GetTimeUntilNextWrite ==
  /\ Running
  /\ lastCall' = PacerReturned("getTimeUntilNextWrite", 0, TimeUntilNextWrite)
  /\ UNCHANGED pacerVars
  /\ UNCHANGED nonPacerVars

\* The application changes conn.transportSettings.writeConnectionDataPacketsLimit
\* of a connection that has its pacer already.
SetWriteConnectionDataPacketsLimit(limit) ==
  /\ Running
  /\ writeConnectionDataPacketsLimit' = limit
  /\ lastCall' = PacerReturned("setWriteConnectionDataPacketsLimit", limit, 0)
  /\ UNCHANGED <<pacingTimerTickInterval, batchSize_, writeInterval_,
                 scheduledWriteTime_, cachedBatchSize_, appLimited_, tokens_>>
  /\ UNCHANGED nonPacerVars

\* DefaultPacer::setAppLimited
SetAppLimited(limited) ==
  /\ Running
  /\ appLimited_' = limited
  /\ lastCall' = PacerReturned("setAppLimited", limited, 0)
  /\ UNCHANGED <<writeConnectionDataPacketsLimit, pacingTimerTickInterval,
                 batchSize_, writeInterval_, scheduledWriteTime_,
                 cachedBatchSize_, tokens_>>
  /\ UNCHANGED nonPacerVars

\* ------------------------------------------------------ specification: pacer
\* A connection constructs its pacer and then refreshes the rate, schedules
\* and performs paced writes, sends and loses packets, and enters and leaves
\* the app-limited state, in any order. The token count is capped.
InitPacing ==
  /\ InitPending
  /\ InitPeerConnIds({Some(InitialPeerConnId)})
  /\ nodeType = "Client"
  /\ selfActiveConnectionIdLimit = 0
  /\ InitStreams
  /\ InitNoPackets
  /\ \E limit \in 1..MaxBurst : InitPacer(limit)
  /\ InitNoDriver
  /\ InitLimiter(1)
  /\ InitIdleTools

NextPacing ==
  \/ \E rtt \in 0..MaxInterval, rate \in PacingRates :
       /\ tokens_ + rate.burstSize <= MaxTokens
       /\ RefreshPacingRate(rtt, rate)
       /\ UNCHANGED pc
  \/ \E t \in TimePoints : OnPacedWriteScheduled(t) /\ UNCHANGED pc
  \/ OnPacketSent /\ UNCHANGED pc
  \/ OnPacketsLoss /\ UNCHANGED pc
  \/ \E t \in TimePoints :
       /\ WriteBatchSize(t).tokens <= MaxTokens
       /\ UpdateAndGetWriteBatchSize(t)
       /\ UNCHANGED pc
  \/ \E limited \in BOOLEAN : SetAppLimited(limited) /\ UNCHANGED pc
  \/ GetTimeUntilNextWrite /\ UNCHANGED pc
  \/ \E limit \in 1..MaxBurst :
       SetWriteConnectionDataPacketsLimit(limit) /\ UNCHANGED pc

SpecPacing == InitPacing /\ [][NextPacing]_vars

\* ------------------------------------- specification: the pacer's token test
\* The test program of PacerTest.Tokens (scenario S3) with the rate, the
\* packet limit and the start time left open: it uses up the pacer's initial
\* tokens (or, as the scenario is worded, starts with the refresh), refreshes
\* with a rate of a positive interval and burst, sends a burst of packets,
\* asks for the time until the next write, and twice schedules a write and
\* observes the batch size one interval later.
TokensAt(at, used, left, time) ==
  [at |-> at, initialTokensUsed |-> used, left |-> left, time |-> time]

\* consumeTokensHelper: one onPacketSent of a loop of pc.left; `next` is
\* where the program goes after the loop.
TokensConsume(at, next) ==
  /\ pc.at = at
  /\ pc.left > 0
  /\ OnPacketSent
  /\ pc' = IF pc.left = 1
           THEN TokensAt(next, pc.initialTokensUsed, 0, 0)
           ELSE [pc EXCEPT !.left = pc.left - 1]

TokensRefresh(rtt, rate) ==
  /\ pc.at = "refresh"
  /\ RefreshPacingRate(rtt, rate)
  /\ pc' = TokensAt("consumeBurst", pc.initialTokensUsed, rate.burstSize, 0)

TokensNextWriteTime ==
  /\ pc.at = "nextWriteTime"
  /\ GetTimeUntilNextWrite
  /\ pc' = TokensAt("schedule", pc.initialTokensUsed, 2, 0)

\* pc.left counts the rounds of scheduling and observing to come; the first
\* is scheduled at any time, the second when the first was observed.
TokensSchedule(curTime) ==
  /\ pc.at = "schedule"
  /\ pc.left = 1 => curTime = pc.time
  /\ OnPacedWriteScheduled(curTime)
  /\ pc' = [pc EXCEPT !.at = "observe", !.time = curTime + writeInterval_]

TokensObserve ==
  /\ pc.at = "observe"
  /\ UpdateAndGetWriteBatchSize(pc.time)
  /\ pc' = [pc EXCEPT !.at = IF pc.left = 1 THEN "done" ELSE "schedule",
                      !.left = pc.left - 1]

InitTokens ==
  /\ InitPending
  /\ InitPeerConnIds({Some(InitialPeerConnId)})
  /\ nodeType = "Client"
  /\ selfActiveConnectionIdLimit = 0
  /\ InitStreams
  /\ InitNoPackets
  /\ InitLimiter(1)
  /\ InitIdleTools
  /\ \E limit \in 1..MaxBurst :
       /\ InitPacer(limit)
       /\ pc \in {TokensAt("consumeInitial", TRUE, limit, 0),
                  TokensAt("refresh", FALSE, 0, 0)}

NextTokens ==
  \/ TokensConsume("consumeInitial", "refresh")
  \/ \E rtt \in 1..MaxInterval, rate \in PacingRates :
       rate.interval >= 1 /\ rate.burstSize >= 1 /\ TokensRefresh(rtt, rate)
  \/ TokensConsume("consumeBurst", "nextWriteTime")
  \/ TokensNextWriteTime
  \/ \E curTime \in TimePoints \cup {pc.time} : TokensSchedule(curTime)
  \/ TokensObserve

SpecTokens == InitTokens /\ [][NextTokens]_vars

\* ---------------------------------------------- pending-path rate limiter
\* A call on the rate limiter returned.
LimiterReturned(op, arg, returned) ==
  [op |-> op, arg |-> arg, result |-> "returned", returned |-> returned]

\* A credit that is due again as soon as one rtt has passed.
CreditExpiredAtBoundary(checkTime, rtt) ==
  ~HasValue(lastChecked_) \/ checkTime >= Value(lastChecked_) + rtt

\* The test of PendingPathRateLimiter::currentCredit: the credit is due for a
\* reset.
CreditExpired(checkTime, rtt) ==
  ~HasValue(lastChecked_) \/ checkTime > Value(lastChecked_) + rtt

\* PendingPathRateLimiter::currentCredit
CurrentCredit(checkTime, rtt) ==
  /\ Running
  /\ IF CreditExpired(checkTime, rtt)
     THEN /\ lastChecked_' = Some(checkTime)
          /\ credit_' = maxCredit_
          /\ sentSinceReset' = 0
     ELSE UNCHANGED <<lastChecked_, credit_, sentSinceReset>>
  /\ lastCall' = LimiterReturned("currentCredit",
                                 [checkTime |-> checkTime, rtt |-> rtt], credit_')
  /\ UNCHANGED maxCredit_
  /\ UNCHANGED nonLimiterVars

\* A send that costs no credit.
RateLimiterOnPacketSentFree(sentBytes) ==
  /\ Running
  /\ UNCHANGED credit_
  /\ lastCall' = LimiterReturned("onPacketSent", sentBytes, 0)
  /\ sentSinceReset' = sentSinceReset + sentBytes
  /\ UNCHANGED <<maxCredit_, lastChecked_>>
  /\ UNCHANGED nonLimiterVars

\* PendingPathRateLimiter::onPacketSent. When DCHECK_GE fails a debug build
\* ends the process and any other build goes on to subtract; credit_ is kept
\* as the difference before its reduction modulo 2^64, so that a wrap-around
\* shows as a negative credit.
RateLimiterOnPacketSent(sentBytes) ==
  /\ Running
  /\ \/ /\ credit_' = credit_ - sentBytes
        /\ lastCall' = LimiterReturned("onPacketSent", sentBytes, 0)
     \/ /\ credit_ < sentBytes
        /\ UNCHANGED credit_
        /\ lastCall' = [op |-> "onPacketSent", arg |-> sentBytes,
                        result |-> "abort", returned |-> 0]
  /\ sentSinceReset' = sentSinceReset + sentBytes
  /\ UNCHANGED <<maxCredit_, lastChecked_>>
  /\ UNCHANGED nonLimiterVars

\* --------------------------------- specification: pending-path rate limiter
\* The connection asks the limiter for its credit at any time and with any
\* rtt, and sends a packet right after asking, of no more bytes than the
\* credit it was told.
InitRateLimiter ==
  /\ InitPending
  /\ InitPeerConnIds({Some(InitialPeerConnId)})
  /\ nodeType = "Client"
  /\ selfActiveConnectionIdLimit = 0
  /\ InitStreams
  /\ InitNoPackets
  /\ InitPacer(1)
  /\ InitNoDriver
  /\ InitIdleTools
  /\ \E maxCredit \in 1..MaxCredit : InitLimiter(maxCredit)

NextRateLimiter ==
  \/ \E checkTime \in TimePoints, rtt \in 0..MaxInterval :
       CurrentCredit(checkTime, rtt)
  \/ \E sentBytes \in 1..MaxCredit :
       /\ lastCall.op = "currentCredit"
       /\ sentBytes <= lastCall.returned
       /\ RateLimiterOnPacketSent(sentBytes)

SpecRateLimiter == InitRateLimiter /\ [][NextRateLimiter]_vars

\* ------------------------------------------------------------ packet builder
\* A call on the packet builder returned.
BuilderReturned(op, arg, returned) ==
  [op |-> op, arg |-> arg, result |-> "returned", returned |-> returned]

\* The builder is still there: buildPacket is its last call (it is
\* rvalue-qualified and moves packet_, header_ and body_ out).
BuilderAlive == Running /\ lastCall.op # "buildPacket"

\* The bytes of a PADDING frame, a PING frame and a MAX_DATA frame of a
\* one-byte maximum, with the frame each of them is recorded as.
PaddingByte == 0

WrittenFrames ==
  { [frame |-> PaddingFrame, bytes |-> <<PaddingByte>>],
    [frame |-> QuicSimpleFrame(PingFrame), bytes |-> <<1>>],
    [frame |-> MaxDataFrame, bytes |-> <<16, 7>>] }

\* RegularQuicPacketBuilder::push: the bytes go to the body and off the
\* budget.  remainingBytes_ is unsigned; a value below zero here is the
\* wrapped value of the code.
Push(data) ==
  /\ body_' = body_ \o data
  /\ remainingBytes_' = remainingBytes_ - Len(data)

\* RegularQuicPacketBuilder::appendFrame
AppendFrame(frame) ==
  packet_' = [packet_ EXCEPT !.frames = Append(@, frame)]

\* A frame writer: it pushes the bytes of a frame that fits and records
\* the frame.
WriteFrame(written) ==
  /\ BuilderAlive
  /\ Len(written.bytes) <= remainingBytes_
  /\ Push(written.bytes)
  /\ AppendFrame(written.frame)
  /\ lastCall' = BuilderReturned("writeFrame", written, Len(written.bytes))
  /\ UNCHANGED <<packetNumberEncoding_, cipherOverhead_>>
  /\ UNCHANGED nonBuilderVars

\* A caller that pushes bytes and records no frame for them.
PushBytes(data) ==
  /\ BuilderAlive
  /\ Len(data) <= remainingBytes_
  /\ Push(data)
  /\ lastCall' = BuilderReturned("push", data, "void")
  /\ UNCHANGED <<packet_, packetNumberEncoding_, cipherOverhead_>>
  /\ UNCHANGED nonBuilderVars

\* RegularQuicPacketBuilder::setCipherOverhead
SetCipherOverhead(overhead) ==
  /\ BuilderAlive
  /\ cipherOverhead_' = overhead
  /\ lastCall' = BuilderReturned("setCipherOverhead", overhead, "void")
  /\ UNCHANGED <<remainingBytes_, packet_, packetNumberEncoding_, body_>>
  /\ UNCHANGED nonBuilderVars

\* RegularQuicPacketBuilder::canBuildPacket
CanBuildPacket ==
  /\ BuilderAlive
  /\ lastCall' = BuilderReturned("canBuildPacket", 0, remainingBytes_ # 0)
  /\ UNCHANGED builderVars
  /\ UNCHANGED nonBuilderVars

\* minBodySize of buildPacket
MinBodySize ==
  (kMaxPacketNumEncodingSize - packetNumberEncoding_.length) + SampleSize

\* A padding loop that writes nothing.
PaddingNone(extraDataWritten, remainingBytes) == extraDataWritten

\* The padding loop of buildPacket: extraDataWritten when it ends.
RECURSIVE PaddingWritten(_, _)
PaddingWritten(extraDataWritten, remainingBytes) ==
  IF /\ Len(body_) + extraDataWritten + cipherOverhead_ < MinBodySize
     /\ packet_.frames # <<>>
     /\ remainingBytes > kMaxPacketLenSize
  THEN PaddingWritten(extraDataWritten + 1, remainingBytes - 1)
  ELSE extraDataWritten

\* RegularQuicPacketBuilder::buildPacket.  The call is recorded with the
\* body, the frames and the budget it found; it returns the packet, the
\* body, and the length written into a long header that is not a Retry.
BuildPacket ==
  /\ BuilderAlive
  /\ LET extraDataWritten == PaddingWritten(0, remainingBytes_)
         padded == body_ \o [i \in 1..extraDataWritten |-> PaddingByte]
         hasLength == /\ packet_.header.form = "Long"
                      /\ packet_.header.type # "Retry"
     IN  /\ body_' = padded
         /\ remainingBytes_' =
              (remainingBytes_ - extraDataWritten)
                - (IF hasLength THEN packetNumberEncoding_.length ELSE 0)
         /\ lastCall' =
              BuilderReturned(
                "buildPacket",
                [body |-> body_, frames |-> packet_.frames,
                 remainingBytes |-> remainingBytes_],
                [packet |-> packet_, body |-> padded,
                 pktLen |-> IF hasLength
                            THEN Some(packetNumberEncoding_.length
                                        + Len(padded) + cipherOverhead_)
                            ELSE None])
  /\ UNCHANGED <<packet_, packetNumberEncoding_, cipherOverhead_>>
  /\ UNCHANGED nonBuilderVars

\* The headers a builder is made for: short headers with and without a
\* connection id, and Initial, Handshake and Retry long headers of both
\* connection-id formats.
PacketHeaders ==
  {ShortHeader(n) : n \in {0, 4}}
    \cup {LongHeader("Initial", v, 0, 4, t) : v \in {"MVFST_OLD", "MVFST"}, t \in {0, 1}}
    \cup {LongHeader("Handshake", v, 0, 4, 0) : v \in {"MVFST_OLD", "MVFST"}}
    \cup {LongHeader("Retry", "MVFST", 0, 4, 1)}

CipherOverheads == {1, SampleSize}

\* A builder right after construction, for every budget, header and
\* packet-number length.
InitPacketBuilder ==
  /\ frames = <<>>
  /\ pathChallenge = None
  /\ outstandingPathValidation = None
  /\ schedulePathValidationTimeout = FALSE
  /\ cancelPingTimeout = FALSE
  /\ pathChallengeStartTime = 0
  /\ now = 0
  /\ inflight = {}
  /\ InitPeerConnIds({Some(InitialPeerConnId)})
  /\ nodeType = "Client"
  /\ selfActiveConnectionIdLimit = 0
  /\ InitStreams
  /\ InitNoPackets
  /\ InitPacer(1)
  /\ InitNoDriver
  /\ InitLimiter(1)
  /\ InitBatchWriter("NONE", 1, FALSE)
  /\ \E remainingBytes \in 0..MaxBudget, header \in PacketHeaders,
        length \in 1..kMaxPacketNumEncodingSize :
       /\ InitBuilder(remainingBytes, header, length)
       /\ lastCall =
            BuilderReturned(
              "RegularQuicPacketBuilder",
              [remainingBytes |-> remainingBytes, header |-> header],
              "void")

NextPacketBuilder ==
  \/ \E written \in WrittenFrames :
       /\ Len(packet_.frames) < MaxFrames
       /\ WriteFrame(written)
  \/ /\ body_ = <<>>
     /\ PushBytes(<<1>>)
  \/ \E overhead \in CipherOverheads : SetCipherOverhead(overhead)
  \/ CanBuildPacket
  \/ BuildPacket

SpecPacketBuilder == InitPacketBuilder /\ [][NextPacketBuilder]_vars

\* -------------------------------------------------------------- batch writer
\* A call on the batch writer returned.
WriterReturned(op, arg, returned) ==
  [op |-> op, arg |-> arg, result |-> "returned", returned |-> returned]

BatchingModes == {"NONE", "GSO", "SENDMMSG", "SENDMMSG_GSO"}

PacketSizes == 1..MaxPacketSize

\* The bytes of a chain of packets.
RECURSIVE ChainDataLength(_)
ChainDataLength(chain) ==
  IF chain = <<>> THEN 0 ELSE Head(chain) + ChainDataLength(Tail(chain))

\* The packets a writer holds: one chain per datagram run.
RECURSIVE BufferedPackets(_)
BufferedPackets(bufs) ==
  IF bufs = <<>> THEN <<>> ELSE Head(bufs) \o BufferedPackets(Tail(bufs))

\* A size that counts the packets held.
BatchWriterSizeOfCount(w) == Len(BufferedPackets(w.bufs_))

\* BatchWriter::size: the bytes currently buffered.
BatchWriterSize(w) == ChainDataLength(BufferedPackets(w.bufs_))

\* BatchWriter::empty
BatchWriterEmpty(w) == w.bufs_ = <<>>

\* A reset that keeps the buffers.
BatchWriterResetKeeps(w) == [w EXCEPT !.prevSize_ = 0]

\* BatchWriter::reset: the buffered state is dropped.
BatchWriterReset(w) == [w EXCEPT !.bufs_ = <<>>, !.prevSize_ = 0]

\* A needsFlush that only turns larger packets away.
BatchWriterNeedsFlushOfLarger(w, size) ==
  /\ w.strategy = "GSO"
  /\ w.prevSize_ # 0
  /\ size > w.prevSize_

\* The last segment of a GSO batch is shorter than the ones before it.
ShorterLastSegment(w) ==
  /\ w.bufs_ # <<>>
  /\ w.bufs_[Len(w.bufs_)][Len(w.bufs_[Len(w.bufs_)])] < w.prevSize_

\* BatchWriter::needsFlush: a GSO batch cannot take a packet larger than
\* the ones it holds, nor any packet after a shorter last segment; the other
\* strategies take any size.
BatchWriterNeedsFlush(w, size) ==
  /\ w.strategy = "GSO"
  /\ w.prevSize_ # 0
  /\ (size > w.prevSize_ \/ ShorterLastSegment(w))

\* The last chain of the writer gets one more packet.
JoinLastChain(bufs, size) ==
  [bufs EXCEPT ![Len(bufs)] = Append(@, size)]

\* An append that always starts with a fresh buffer.
BatchWriterAppendReplaces(w, size) ==
  [writer |-> [w EXCEPT !.bufs_ = <<<<size>>>>, !.prevSize_ = size],
   needsFlush |-> TRUE]

\* BatchWriter::append: the writer after it, and whether the packet
\* filled the batch.
\*   NONE          one packet per call;
\*   GSO           the first packet opens the batch and sets the segment
\*                 size and never ends it; a later one joins the chain
\*                 and ends the batch when it is of another size or the
\*                 chain has maxBufs packets;
\*   SENDMMSG      every packet is its own datagram, maxBufs of them;
\*   SENDMMSG_GSO  a packet larger than the run's segment size, or coming
\*                 after a shorter one, opens a new run; maxBufs packets.
BatchWriterAppend(w, size) ==
  CASE w.strategy = "NONE" ->
         [writer |-> [w EXCEPT !.bufs_ = <<<<size>>>>],
          needsFlush |-> TRUE]
    [] w.strategy = "GSO" ->
         IF w.bufs_ = <<>>
         THEN [writer |-> [w EXCEPT !.bufs_ = <<<<size>>>>, !.prevSize_ = size],
               needsFlush |-> FALSE]
         ELSE LET bufs == JoinLastChain(w.bufs_, size)
              IN  [writer |-> [w EXCEPT !.bufs_ = bufs],
                   needsFlush |-> \/ size # w.prevSize_
                                  \/ Len(BufferedPackets(bufs)) >= w.maxBufs_]
    [] w.strategy = "SENDMMSG" ->
         LET bufs == Append(w.bufs_, <<size>>)
         IN  [writer |-> [w EXCEPT !.bufs_ = bufs],
              needsFlush |-> Len(bufs) = w.maxBufs_]
    [] w.strategy = "SENDMMSG_GSO" ->
         LET bufs == IF size > w.prevSize_
                     THEN Append(w.bufs_, <<size>>)
                     ELSE JoinLastChain(w.bufs_, size)
         IN  [writer |-> [w EXCEPT !.bufs_ = bufs,
                                   !.prevSize_ = IF size < w.prevSize_ THEN 0 ELSE size],
              needsFlush |-> Len(BufferedPackets(bufs)) = w.maxBufs_]

\* The caller appends a packet: it has flushed after an append that
\* returned true, and asked needsFlush about this length.
WriterAppend(size) ==
  /\ Running
  /\ ~mustFlush
  /\ ~BatchWriterNeedsFlush(batchWriter, size)
  /\ LET appended == BatchWriterAppend(batchWriter, size)
     IN  /\ batchWriter' = appended.writer
         /\ mustFlush' = appended.needsFlush
         /\ lastCall' = WriterReturned("append", size, appended.needsFlush)
  /\ batched' = Append(batched, size)
  /\ UNCHANGED nonWriterVars

WriterNeedsFlush(size) ==
  /\ Running
  /\ lastCall' = WriterReturned("needsFlush", size,
                                BatchWriterNeedsFlush(batchWriter, size))
  /\ UNCHANGED writerVars
  /\ UNCHANGED nonWriterVars

WriterSize ==
  /\ Running
  /\ lastCall' = WriterReturned("size", 0, BatchWriterSize(batchWriter))
  /\ UNCHANGED writerVars
  /\ UNCHANGED nonWriterVars

WriterEmpty ==
  /\ Running
  /\ lastCall' = WriterReturned("empty", 0, BatchWriterEmpty(batchWriter))
  /\ UNCHANGED writerVars
  /\ UNCHANGED nonWriterVars

WriterReset ==
  /\ Running
  /\ batchWriter' = BatchWriterReset(batchWriter)
  /\ batched' = <<>>
  /\ mustFlush' = FALSE
  /\ lastCall' = WriterReturned("reset", 0, "void")
  /\ UNCHANGED nonWriterVars

\* flush: the buffered datagrams are emitted, one per chain, and the state
\* is emptied.
WriterFlush ==
  /\ Running
  /\ batchWriter' = BatchWriterReset(batchWriter)
  /\ batched' = <<>>
  /\ mustFlush' = FALSE
  /\ lastCall' = WriterReturned("flush", 0, batchWriter.bufs_)
  /\ UNCHANGED nonWriterVars

\* A writer of every mode and batch size, on a socket with and without GSO.
InitWriter ==
  /\ InitPending
  /\ InitPeerConnIds({Some(InitialPeerConnId)})
  /\ nodeType = "Client"
  /\ selfActiveConnectionIdLimit = 0
  /\ InitStreams
  /\ InitNoPackets
  /\ InitPacer(1)
  /\ InitNoDriver
  /\ InitLimiter(1)
  /\ InitBuilder(0, ShortHeader(0), 1)
  /\ \E batchingMode \in BatchingModes, batchSize \in 1..MaxBatchNum,
        gso \in BOOLEAN :
       InitBatchWriter(batchingMode, batchSize, gso)

NextWriter ==
  \/ \E size \in PacketSizes : WriterAppend(size)
  \/ \E size \in PacketSizes : WriterNeedsFlush(size)
  \/ WriterSize
  \/ WriterEmpty
  \/ WriterReset
  \/ WriterFlush

SpecWriter == InitWriter /\ [][NextWriter]_vars

\* ------------------------------------------ connection-id length byte
\* The largest connection id, and the sizes a ConnectionId can have.
kMaxConnectionIdSize == 20
ConnIdSizes == 0..kMaxConnectionIdSize

\* The bitwise or of two naturals.
RECURSIVE BitOr(_, _)
BitOr(a, b) ==
  IF a = 0 THEN b
  ELSE IF b = 0 THEN a
  ELSE (IF a % 2 = 1 \/ b % 2 = 1 THEN 1 ELSE 0) + 2 * BitOr(a \div 2, b \div 2)

\* The value a uint8_t gets from an int.
Uint8(n) == n % 256

\* A decoding that takes the codes for the lengths.
DecodeConnectionIdLengthsPlain(connIdSize) ==
  <<connIdSize \div 16, connIdSize % 16>>

\* decodeConnectionIdLengths: the destination and source lengths packed in
\* the byte.
DecodeConnectionIdLengths(connIdSize) ==
  LET dcidLen == connIdSize \div 16
      scidLen == connIdSize % 16
  IN  <<IF dcidLen = 0 THEN 0 ELSE Uint8(dcidLen + 3),
        IF scidLen = 0 THEN 0 ELSE Uint8(scidLen + 3)>>

\* encodeConnectionIdLengths: the byte of the two lengths.  The shift and
\* the or are done on ints, and the result is cut to the uint8_t returned.
EncodeConnectionIdLengths(destinationConnectionIdSize, sourceConnectionIdSize) ==
  LET dstByte == IF destinationConnectionIdSize = 0 THEN 0
                 ELSE Uint8(destinationConnectionIdSize - 3)
      srcByte == IF sourceConnectionIdSize = 0 THEN 0
                 ELSE Uint8(sourceConnectionIdSize - 3)
  IN  Uint8(BitOr(dstByte * 16, srcByte))

\* encodeLongHeaderHelper writes the length byte of an MVFST_OLD header.
EncodeLengths(dcidSize, scidSize) ==
  /\ Running
  /\ lastCall' =
       [op |-> "encodeConnectionIdLengths", arg |-> <<dcidSize, scidSize>>,
        result |-> "returned",
        returned |-> EncodeConnectionIdLengths(dcidSize, scidSize)]
  /\ UNCHANGED <<connVars, componentVars>>

\* The receiver of the header decodes the byte just written.
DecodeLengths ==
  /\ Running
  /\ lastCall.op = "encodeConnectionIdLengths"
  /\ lastCall' =
       [op |-> "decodeConnectionIdLengths", arg |-> lastCall.returned,
        result |-> "returned",
        returned |-> DecodeConnectionIdLengths(lastCall.returned),
        encoded |-> lastCall.arg]
  /\ UNCHANGED <<connVars, componentVars>>

InitLengthByte ==
  /\ InitPending
  /\ InitPeerConnIds({Some(InitialPeerConnId)})
  /\ nodeType = "Client"
  /\ selfActiveConnectionIdLimit = 0
  /\ InitStreams
  /\ InitNoPackets
  /\ InitIdleComponents

NextLengthByte ==
  \/ \E dcidSize \in ConnIdSizes, scidSize \in ConnIdSizes :
       EncodeLengths(dcidSize, scidSize)
  \/ DecodeLengths

SpecLengthByte == InitLengthByte /\ [][NextLengthByte]_vars

\* ------------------------- specification: retransmission of simple frames
\* The packet that carried the simple frame f, still in flight, is recorded
\* as an outstanding packet.
SimpleFramePacketOutstanding(f) ==
  /\ f \in inflight
  /\ SendPacket([frames |-> <<QuicSimpleFrame(f)>>, isHandshake |-> FALSE])

\* PATH_RESPONSE frames answer received challenges and PING frames are
\* queued; both are sent, and then lost, acknowledged, offered to the
\* cloning scheduler and rebuilt from their outstanding packets, into a
\* builder with no space left or with space for one simple frame.
NextRetransmission ==
  \/ PacketReceived(PathChallengeFrame(1), FALSE)
  \/ QueueFrame(PingFrame)
  \/ \E i \in 1..Len(frames) : PacketSentInWindow(frames[i])
  \/ \E f \in inflight : PacketLost(f)
  \/ \E f \in inflight : PacketAcked(f)
  \/ \E f \in inflight : PacketCloned(f)
  \/ \E f \in inflight : SimpleFramePacketOutstanding(f)
  \/ \E pn \in 1..MaxPackets, space \in {0, FrameSize(PingFrame)} : Rebuild(pn, space)
  \/ \E pn \in 1..MaxPackets : PacketGone(pn)

SpecRetransmission == InitPathValidation /\ [][NextRetransmission]_vars

\* ------------------------------ specification: life of a path challenge
\* The path data of the challenges that are armed, outstanding or in flight.
LivePathData ==
  {f.pathData : f \in pathChallenge \cup outstandingPathValidation
                       \cup {g \in inflight : g.type = "PathChallengeFrame"}}

\* The transport starts validating a new path with path data that no live
\* challenge carries (the path data of a challenge are drawn at random).
StartFreshPathValidation(d) ==
  /\ d \notin LivePathData
  /\ StartPathValidation(d)

\* Challenges are armed, sent, declared lost and acknowledged, and
\* PATH_RESPONSE frames arrive, in every order.
NextChallengeLife ==
  \/ \E d \in PathDatas : StartFreshPathValidation(d)
  \/ \E f \in pathChallenge : PacketSent(f)
  \/ \E f \in inflight : PacketLost(f)
  \/ \E f \in inflight : PacketAcked(f)
  \/ \E f \in PathResponseFrames, changed \in BOOLEAN : PacketReceived(f, changed)
  \/ Tick

SpecChallengeLife == InitPathValidation /\ [][NextChallengeLife]_vars

\* ------------------------------------------------------------------ claims
\* The step is a call of updateSimpleFrameOnPacketReceived with a frame of
\* the given type (every step of a specification is one call, recorded in
\* lastCall').
ReceivedNow(type) ==
  lastCall'.op = "received" /\ lastCall'.frame.type = type

IsPathResponse(f) == f.type = "PathResponseFrame"

\* C1: a received PATH_RESPONSE clears outstandingPathValidation and
\* un-schedules the path-validation timeout iff it comes from the unchanged
\* peer address, a validation is outstanding and the path data match; in every
\* other case both are left as they were; the call returns false always.
C1_PathResponseClearsIffValid ==
  [][ReceivedNow("PathResponseFrame") =>
       LET f == lastCall'.frame
           valid == /\ ~lastCall'.fromChangedPeerAddress
                    /\ HasValue(outstandingPathValidation)
                    /\ f.pathData = Value(outstandingPathValidation).pathData
       IN /\ lastCall'.result = "false"
          /\ IF valid
             THEN /\ outstandingPathValidation' = None
                  /\ schedulePathValidationTimeout' = FALSE
             ELSE /\ outstandingPathValidation' = outstandingPathValidation
                  /\ schedulePathValidationTimeout' = schedulePathValidationTimeout
     ]_vars

\* A matching PATH_RESPONSE from the unchanged address has just cleared the
\* validation of a challenge that was sent and is still in flight.
C1_Witness ==
  /\ lastCall.op = "received" /\ lastCall.frame.type = "PathResponseFrame"
  /\ ~lastCall.fromChangedPeerAddress
  /\ PathChallengeFrame(lastCall.frame.pathData) \in inflight
  /\ outstandingPathValidation = None
  /\ ~schedulePathValidationTimeout

\* C2: on a received PATH_CHALLENGE(D), if the rotation to a new peer
\* connection id succeeds, exactly one PATH_RESPONSE(D) is appended to
\* pendingEvents.frames in the same call, which returns false; if no unused
\* peer connection id remains, INVALID_MIGRATION is raised and
\* pendingEvents.frames is unchanged.
C2_PathChallengeAnswered ==
  [][ReceivedNow("PathChallengeFrame") =>
       LET response == PathResponseFrame(lastCall'.frame.pathData)
       IN IF CanRotatePeerConnId
          THEN /\ lastCall'.result = "false"
               /\ Len(frames') > Len(frames)
               /\ SubSeq(frames', 1, Len(frames)) = frames
               /\ frames'[Len(frames')] = response
               /\ SelectSeq(frames', IsPathResponse) =
                    Append(SelectSeq(frames, IsPathResponse), response)
          ELSE /\ lastCall'.result = "INVALID_MIGRATION"
               /\ frames' = frames
     ]_vars

\* A PATH_CHALLENGE was answered after the rotation away from the initial
\* peer connection id.
C2_Witness ==
  /\ lastCall.op = "received" /\ lastCall.frame.type = "PathChallengeFrame"
  /\ lastCall.result = "false"
  /\ frames # <<>>
  /\ frames[Len(frames)] = PathResponseFrame(lastCall.frame.pathData)
  /\ PeerConnId # Some(InitialPeerConnId)
  /\ ExistingPeerConnIdData(InitialPeerConnId) = {}

\* C3: the size of conn.peerConnectionIds never exceeds
\* selfActiveConnectionIdLimit + 1.
C3_PeerConnIdsCapped ==
  Len(peerConnectionIds) <= selfActiveConnectionIdLimit + 1

\* The frame just received was accepted and filled the set to the cap.
C3_Witness ==
  /\ selfActiveConnectionIdLimit >= 1
  /\ Len(peerConnectionIds) = selfActiveConnectionIdLimit + 1
  /\ lastCall.op = "received" /\ lastCall.frame.type = "NewConnectionIdFrame"
  /\ peerConnectionIds[Len(peerConnectionIds)] =
       ConnectionIdData(lastCall.frame.connectionId, lastCall.frame.sequenceNumber,
                        lastCall.frame.token)

\* C4: a received NEW_CONNECTION_ID frame with retirePriorTo > sequenceNumber
\* raises PROTOCOL_VIOLATION whatever its connection id and however full the
\* set is, and leaves conn.peerConnectionIds unchanged.
C4_RetirePriorToChecked ==
  [][(/\ ReceivedNow("NewConnectionIdFrame")
      /\ lastCall'.frame.retirePriorTo > lastCall'.frame.sequenceNumber) =>
       /\ lastCall'.result = "PROTOCOL_VIOLATION"
       /\ peerConnectionIds' = peerConnectionIds
     ]_vars

\* A frame with retirePriorTo > sequenceNumber that repeats a stored id with
\* its stored sequence number was rejected while the set was full.
C4_Witness ==
  /\ lastCall.op = "received" /\ lastCall.frame.type = "NewConnectionIdFrame"
  /\ lastCall.frame.retirePriorTo > lastCall.frame.sequenceNumber
  /\ lastCall.result = "PROTOCOL_VIOLATION"
  /\ Len(peerConnectionIds) = selfActiveConnectionIdLimit + 1
  /\ \E i \in 1..Len(peerConnectionIds) :
       /\ peerConnectionIds[i].connId = lastCall.frame.connectionId
       /\ peerConnectionIds[i].sequenceNumber = lastCall.frame.sequenceNumber

\* The stored sequence number of a connection id held in the set.
StoredSequenceNumber(cid) ==
  peerConnectionIds[CHOOSE i \in ExistingPeerConnIdData(cid) : TRUE].sequenceNumber

\* C5 as stated: a received NEW_CONNECTION_ID frame whose connection id is
\* already in the set is a no-op returning false when its sequence number is
\* the stored one, and raises PROTOCOL_VIOLATION when it differs; the set is
\* unchanged in both cases.
C5_DuplicateAsStated ==
  [][(/\ ReceivedNow("NewConnectionIdFrame")
      /\ ExistingPeerConnIdData(lastCall'.frame.connectionId) # {}) =>
       /\ peerConnectionIds' = peerConnectionIds
       /\ lastCall'.result =
            IF StoredSequenceNumber(lastCall'.frame.connectionId) =
                 lastCall'.frame.sequenceNumber
            THEN "false" ELSE "PROTOCOL_VIOLATION"
     ]_vars

\* C5 amended: the same for the frames with retirePriorTo <= sequenceNumber;
\* a frame with retirePriorTo > sequenceNumber raises PROTOCOL_VIOLATION even
\* when it repeats a stored id with its stored sequence number.
C5_DuplicateValidRetire ==
  [][(/\ ReceivedNow("NewConnectionIdFrame")
      /\ ExistingPeerConnIdData(lastCall'.frame.connectionId) # {}) =>
       /\ peerConnectionIds' = peerConnectionIds
       /\ lastCall'.result =
            IF /\ lastCall'.frame.retirePriorTo <= lastCall'.frame.sequenceNumber
               /\ StoredSequenceNumber(lastCall'.frame.connectionId) =
                    lastCall'.frame.sequenceNumber
            THEN "false" ELSE "PROTOCOL_VIOLATION"
     ]_vars

\* An accepted id was repeated with another sequence number and rejected.
C5_Witness ==
  /\ lastCall.op = "received" /\ lastCall.frame.type = "NewConnectionIdFrame"
  /\ lastCall.frame.retirePriorTo <= lastCall.frame.sequenceNumber
  /\ lastCall.frame.connectionId # InitialPeerConnId
  /\ ExistingPeerConnIdData(lastCall.frame.connectionId) # {}
  /\ StoredSequenceNumber(lastCall.frame.connectionId) # lastCall.frame.sequenceNumber
  /\ lastCall.result = "PROTOCOL_VIOLATION"

PeerConnIdsFull == Len(peerConnectionIds) = selfActiveConnectionIdLimit + 1

\* C6 as stated: once the set holds selfActiveConnectionIdLimit + 1 ids,
\* every further NEW_CONNECTION_ID frame is ignored: false is returned, no
\* error is raised and the set is unchanged.
C6_FullSetIgnoresAsStated ==
  [][(ReceivedNow("NewConnectionIdFrame") /\ PeerConnIdsFull) =>
       /\ lastCall'.result = "false"
       /\ peerConnectionIds' = peerConnectionIds
     ]_vars

\* The checks a NEW_CONNECTION_ID frame must pass before the size of the set
\* is looked at.
PassesValidation(f) ==
  /\ f.retirePriorTo <= f.sequenceNumber
  /\ IF ExistingPeerConnIdData(f.connectionId) # {}
     THEN StoredSequenceNumber(f.connectionId) = f.sequenceNumber
     ELSE HasValue(PeerConnId) /\ Len(Value(PeerConnId)) # 0

\* C6 amended: once the set is full, every further NEW_CONNECTION_ID frame
\* leaves it unchanged; the frame is ignored (false, no error) when it passes
\* validation, and raises PROTOCOL_VIOLATION otherwise.
C6_FullSetIgnoresValid ==
  [][(ReceivedNow("NewConnectionIdFrame") /\ PeerConnIdsFull) =>
       /\ peerConnectionIds' = peerConnectionIds
       /\ lastCall'.result =
            IF PassesValidation(lastCall'.frame) THEN "false" ELSE "PROTOCOL_VIOLATION"
     ]_vars

\* A valid frame with a new connection id was dropped by a full set that
\* holds accepted ids.
C6_Witness ==
  /\ selfActiveConnectionIdLimit >= 1
  /\ PeerConnIdsFull
  /\ lastCall.op = "received" /\ lastCall.frame.type = "NewConnectionIdFrame"
  /\ lastCall.result = "false"
  /\ ExistingPeerConnIdData(lastCall.frame.connectionId) = {}

\* The step is a call of rebuildFromPacket.
RebuiltNow == lastCall'.op = "rebuildFromPacket"
\* The last call was rebuildFromPacket, and it returned.
Rebuilt == lastCall.op = "rebuildFromPacket" /\ lastCall.result = "returned"
PureAck(fs) == \A f \in FramesOf(fs) : f.type \in {"WriteAckFrame", "PaddingFrame"}

\* C7: every successful rebuild of an original outstanding packet returns
\* the packet's own number as the clone event and leaves that event in
\* outstandingPacketEvents and on the packet; the first such rebuild adds
\* the event and increments outstandingClonedPacketsCount by one, every
\* later one changes neither; the packets of the group carry no other event.
C7_OneEventPerGroup ==
  [][(/\ RebuiltNow
      /\ HasValue(lastCall'.event)
      /\ outstandingPackets[lastCall'.packet].origin = lastCall'.packet)
     => LET pn == lastCall'.packet
        IN /\ lastCall'.event = Some(pn)
           /\ outstandingPackets'[pn].associatedEvent = Some(pn)
           /\ pn \in outstandingPacketEvents'
           /\ IF HasValue(outstandingPackets[pn].associatedEvent)
              THEN /\ outstandingPacketEvents' = outstandingPacketEvents
                   /\ outstandingClonedPacketsCount' = outstandingClonedPacketsCount
              ELSE /\ outstandingPacketEvents' = outstandingPacketEvents \cup {pn}
                   /\ outstandingClonedPacketsCount' = outstandingClonedPacketsCount + 1
           /\ \A q \in DOMAIN outstandingPackets' :
                outstandingPackets'[q].origin = pn
                  => outstandingPackets'[q].associatedEvent = Some(pn)]_vars

\* An original packet was rebuilt again while a clone of it is outstanding.
C7_Witness ==
  /\ Rebuilt
  /\ lastCall.event = Some(lastCall.packet)
  /\ outstandingPackets[lastCall.packet].origin = lastCall.packet
  /\ \E q \in Outstanding \ {lastCall.packet} :
       outstandingPackets[q].origin = lastCall.packet
  /\ outstandingPacketEvents = {lastCall.packet}
  /\ outstandingClonedPacketsCount = 1

RECURSIVE ReplayFrames(_, _, _, _)
ReplayFrames(st, fs, i, isHandshake) ==
  IF i = 0 THEN st
  ELSE RebuildFrame(ReplayFrames(st, fs, i - 1, isHandshake), fs[i], isHandshake)

\* The first frame of packet pn that is not re-emitted into `space` bytes.
FirstFailing(pn, space) ==
  LET packet == outstandingPackets[pn]
      After(i) == ReplayFrames(RebuildStart(space), packet.frames, i, packet.isHandshake)
  IN {i \in 1..Len(packet.frames) :
        /\ ~After(i).writeSuccess
        /\ \A j \in 1..(i - 1) : After(j).writeSuccess}

\* A window update the rebuilder is to write afresh.
IsWindowUpdate(f) ==
  \/ f.type = "MaxDataFrame"
  \/ /\ f.type = "MaxStreamDataFrame"
     /\ StreamExists(f.streamId)
     /\ streams[f.streamId].shouldSendFlowControl

\* Frame f, due to be written, is not written to the builder.
NotReEmitted(st, f, isHandshake) ==
  \/ ~RebuildFrame(st, f, isHandshake).writeSuccess
  \/ IsWindowUpdate(f) /\ ~Fits(st, f)

\* The first frame of packet pn that is due but not written, window
\* updates included.
FirstNotReEmitted(pn, space) ==
  LET packet == outstandingPackets[pn]
      After(i) == ReplayFrames(RebuildStart(space), packet.frames, i, packet.isHandshake)
      Missed(i) == NotReEmitted(After(i - 1), packet.frames[i], packet.isHandshake)
  IN {i \in 1..Len(packet.frames) : Missed(i) /\ \A j \in 1..(i - 1) : ~Missed(j)}

\* C9 as stated: a rebuild in which any frame of the packet is not
\* re-emitted returns with no clone event, stops at that frame and leaves
\* the clone bookkeeping unchanged.
C9_AnyFailedFrameAsStated ==
  [][RebuiltNow
     => \A i \in FirstNotReEmitted(lastCall'.packet, lastCall'.space) :
          /\ lastCall'.result = "returned"
          /\ lastCall'.event = None
          /\ lastCall'.examined = i
          /\ UNCHANGED <<outstandingPacketEvents, outstandingClonedPacketsCount,
                         outstandingPackets>>]_vars

\* C9: a rebuild in which a frame other than a window update (MAX_DATA,
\* MAX_STREAM_DATA) is not re-emitted returns (no error) with no clone
\* event, examines no frame after the first such frame, and leaves
\* outstandingPacketEvents, outstandingClonedPacketsCount and the
\* outstanding packets (their associatedEvent) unchanged.  A window update
\* that does not fit never sets writeSuccess to false, so FirstFailing
\* passes over it as the loop does.
C9_FailedRebuildMintsNothing ==
  [][RebuiltNow
     => \A i \in FirstFailing(lastCall'.packet, lastCall'.space) :
          /\ lastCall'.result = "returned"
          /\ lastCall'.event = None
          /\ lastCall'.examined = i
          /\ UNCHANGED <<outstandingPacketEvents, outstandingClonedPacketsCount,
                         outstandingPackets>>]_vars

\* A rebuild stopped at a failing frame that is not the packet's last.
C9_Witness ==
  /\ Rebuilt
  /\ lastCall.examined \in FirstFailing(lastCall.packet, lastCall.space)
  /\ lastCall.examined < Len(outstandingPackets[lastCall.packet].frames)
  /\ lastCall.event = None

\* C10: a rebuild that returns having re-emitted nothing but ACK and
\* PADDING frames returns no clone event and leaves outstandingPacketEvents
\* and the outstanding packets (their associatedEvent) unchanged.
C10_PureAckNotCloned ==
  [][(RebuiltNow /\ lastCall'.result = "returned" /\ PureAck(lastCall'.written))
     => /\ lastCall'.event = None
        /\ UNCHANGED <<outstandingPacketEvents, outstandingPackets>>]_vars

\* Every frame was examined, the packet has a frame that is neither ACK nor
\* PADDING, and only an ACK was re-emitted.
C10_Witness ==
  /\ Rebuilt
  /\ lastCall.examined = Len(outstandingPackets[lastCall.packet].frames)
  /\ ~PureAck(outstandingPackets[lastCall.packet].frames)
  /\ lastCall.written = <<WriteAckFrame>>
  /\ lastCall.event = None

\* The data of STREAM frame f left the retransmission buffer of its stream,
\* which still sends: no entry at the frame's offset, or an entry whose
\* length or FIN differs.
StreamDataGone(f) ==
  /\ f.type = "WriteStreamFrame"
  /\ StreamExists(f.streamId) /\ Retransmittable(f.streamId)
  /\ ~\E b \in streams[f.streamId].retransmissionBuffer :
        b.offset = f.offset /\ b.len = f.len /\ b.eof = f.fin

\* The frames of packet pn that the loop reaches with data gone, when the
\* packet is rebuilt into `space` bytes.
ReachedWithDataGone(pn, space) ==
  LET packet == outstandingPackets[pn]
      After(i) == ReplayFrames(RebuildStart(space), packet.frames, i, packet.isHandshake)
  IN {i \in 1..Len(packet.frames) :
        /\ StreamDataGone(packet.frames[i])
        /\ \A j \in 1..(i - 1) : After(j).writeSuccess}

CalledNow(op, types) == lastCall'.op = op /\ lastCall'.frame.type \in types

\* C12 as stated: after updateSimpleFrameOnPacketLoss on a STOP_SENDING or
\* MAX_STREAMS frame the frame is in pendingEvents.frames again, appended
\* after the existing entries.
C12_LostFrameRequeuedAsStated ==
  [][CalledNow("lost", {"StopSendingFrame", "MaxStreamsFrame"})
     => frames' = Append(frames, lastCall'.frame)]_vars

\* C12: updateSimpleFrameOnPacketLoss appends a lost MAX_STREAMS frame to
\* pendingEvents.frames, and a lost STOP_SENDING frame iff its stream still
\* exists; the existing entries are unchanged, and a STOP_SENDING frame of a
\* stream that is gone leaves the queue as it was.
C12_LostFrameRequeued ==
  [][CalledNow("lost", {"StopSendingFrame", "MaxStreamsFrame"})
     => frames' =
          IF \/ lastCall'.frame.type = "MaxStreamsFrame"
             \/ lastCall'.frame.streamId \in {s \in StreamIds : streams[s].exists}
          THEN frames \o <<lastCall'.frame>>
          ELSE frames]_vars

\* A lost STOP_SENDING frame was appended behind another pending frame.
C12_Witness ==
  /\ lastCall.op = "lost"
  /\ lastCall.frame.type = "StopSendingFrame"
  /\ Len(frames) = 2
  /\ frames[1] # lastCall.frame
  /\ frames[2] = lastCall.frame

\* C13: updateSimpleFrameOnPacketSent on a frame other than PATH_CHALLENGE
\* removes the first entry of pendingEvents.frames equal to the frame and
\* keeps the other entries in order; when no entry equals the frame the CHECK
\* fails and the queue is as it was.
C13_SentFrameLeavesQueue ==
  [][(lastCall'.op = "sent" /\ lastCall'.frame.type # "PathChallengeFrame")
     => LET f == lastCall'.frame
            at == {i \in 1..Len(frames) :
                     frames[i] = f /\ \A j \in 1..(i - 1) : frames[j] # f}
        IN IF at = {}
           THEN lastCall'.result = "abort" /\ frames' = frames
           ELSE /\ lastCall'.result = "void"
                /\ \A i \in at :
                     frames' = SubSeq(frames, 1, i - 1)
                                 \o SubSeq(frames, i + 1, Len(frames))]_vars

\* A frame queued twice was sent once: one entry of it remains, behind
\* nothing else.
C13_Witness ==
  /\ lastCall.op = "sent"
  /\ lastCall.result = "void"
  /\ lastCall.frame.type = "MaxStreamsFrame"
  /\ frames = <<lastCall.frame>>

\* The CHECK of updateSimpleFrameOnPacketSent failed on a frame that was
\* never queued.
C13_WitnessAbort ==
  /\ lastCall.op = "sent"
  /\ lastCall.result = "abort"
  /\ frames # << >>

\* C14: updateSimpleFrameOnPacketSent on the PATH_CHALLENGE frame f leaves
\* outstandingPathValidation holding f, schedulePathValidationTimeout set,
\* pathChallengeStartTime at the current time and pendingEvents.frames as
\* it was.
C14_PathChallengeSent ==
  [][CalledNow("sent", {"PathChallengeFrame"})
     => /\ outstandingPathValidation' = Some(lastCall'.frame)
        /\ schedulePathValidationTimeout'
        /\ pathChallengeStartTime' = now
        /\ frames' = frames]_vars

\* A PATH_CHALLENGE was sent after time had passed, with a PATH_RESPONSE
\* pending in the queue.
C14_Witness ==
  /\ lastCall.op = "sent"
  /\ lastCall.frame.type = "PathChallengeFrame"
  /\ outstandingPathValidation = Some(lastCall.frame)
  /\ pathChallengeStartTime > 0
  /\ frames # << >>

StreamFrameTypes == {"StopSendingFrame", "MinStreamDataFrame", "ExpiredStreamDataFrame"}

\* C15: updateSimpleFrameOnPacketClone returns its frame or nothing and
\* changes no connection state; it returns the frame always for PING,
\* NEW_CONNECTION_ID, MAX_STREAMS and RETIRE_CONNECTION_ID, iff the stream
\* exists for STOP_SENDING, MIN_STREAM_DATA and EXPIRED_STREAM_DATA, iff the
\* frame is the outstanding path validation for PATH_CHALLENGE, and never
\* for PATH_RESPONSE.
C15_CloneFilter ==
  [][lastCall'.op = "cloned"
     => LET f == lastCall'.frame
            cloned ==
              CASE f.type \in {"PingFrame", "NewConnectionIdFrame", "MaxStreamsFrame",
                               "RetireConnectionIdFrame"} -> TRUE
                [] f.type \in StreamFrameTypes -> streams[f.streamId].exists
                [] f.type = "PathChallengeFrame" -> outstandingPathValidation = {f}
                [] f.type = "PathResponseFrame" -> FALSE
        IN /\ lastCall'.returned = IF cloned THEN {f} ELSE {}
           /\ UNCHANGED <<sfVars, cidVars, streamVars, rbVars>>]_vars

\* A STOP_SENDING frame of a stream that is gone was filtered out.
C15_Witness ==
  /\ lastCall.op = "cloned"
  /\ lastCall.frame.type = "StopSendingFrame"
  /\ ~streams[lastCall.frame.streamId].exists
  /\ lastCall.returned = {}

\* C16: updateSimpleFrameOnPacketReceived returns true for PING,
\* STOP_SENDING, MIN_STREAM_DATA, EXPIRED_STREAM_DATA and MAX_STREAMS (and
\* raises nothing for them), and whenever it returns for PATH_CHALLENGE,
\* PATH_RESPONSE, NEW_CONNECTION_ID and RETIRE_CONNECTION_ID it returns
\* false; a STOP_SENDING, MIN_STREAM_DATA or EXPIRED_STREAM_DATA frame of a
\* stream that does not exist changes no state and still returns true.
C16_ReceiveReturnValue ==
  [][lastCall'.op = "received"
     => LET f == lastCall'.frame
        IN /\ f.type \in StreamFrameTypes \cup {"PingFrame", "MaxStreamsFrame"}
                => lastCall'.result = "true"
           /\ f.type \in {"PathChallengeFrame", "PathResponseFrame",
                          "NewConnectionIdFrame", "RetireConnectionIdFrame"}
                => lastCall'.result # "true"
           /\ lastCall'.result \in {"true", "false"}
                => (lastCall'.result = "true"
                      <=> f.type \in StreamFrameTypes \cup {"PingFrame", "MaxStreamsFrame"})
           /\ (f.type \in StreamFrameTypes /\ ~streams[f.streamId].exists)
                => UNCHANGED <<sfVars, cidVars, streamVars, rbVars>>]_vars

\* A MIN_STREAM_DATA frame for a stream that does not exist was received
\* with partial reliability on, and the call returned true.
C16_Witness ==
  /\ lastCall.op = "received"
  /\ lastCall.frame.type = "MinStreamDataFrame"
  /\ ~streams[lastCall.frame.streamId].exists
  /\ partialReliabilityEnabled
  /\ lastCall.result = "true"

\* The step is a call of the pacer's method `op`.
PacerCalledNow(op) == lastCall'.op = op

\* C17: the pacer's token count is never negative: onPacketSent takes exactly
\* one token when there is one and changes nothing when there is none, and
\* whatever the order of the calls on the pacer, updateAndGetWriteBatchSize
\* never returns a negative value.
C17_TokensNeverNegative ==
  /\ tokens_ >= 0
  /\ [][/\ tokens_' >= 0
        /\ PacerCalledNow("onPacketSent")
             => /\ tokens_ > 0 => tokens_' = tokens_ - 1
                /\ tokens_ = 0 => tokens_' = 0
        /\ PacerCalledNow("updateAndGetWriteBatchSize")
             => lastCall'.returned >= 0]_vars

\* A packet was sent and no token is left.
C17_Witness == lastCall.op = "onPacketSent" /\ tokens_ = 0

\* C18: refreshPacingRate with an rtt of at least the pacing timer's tick
\* stores the interval and the burst the rate calculator returns and adds the
\* burst to the tokens there are, so that refreshes with no send in between
\* accumulate; on a fresh pacer one refresh leaves the burst plus the
\* connection's packet limit, which the next unscheduled
\* updateAndGetWriteBatchSize of a paced, not app-limited pacer reports.
C18_RefreshAddsBurst ==
  [][/\ PacerCalledNow("refreshPacingRate")
          /\ lastCall'.arg.rtt >= pacingTimerTickInterval
        => /\ writeInterval_' = lastCall'.arg.rate.interval
           /\ batchSize_' = lastCall'.arg.rate.burstSize
           /\ tokens_' = tokens_ + lastCall'.arg.rate.burstSize
           /\ lastCall.op = "none"
                => tokens_' = lastCall'.arg.rate.burstSize
                                + writeConnectionDataPacketsLimit
     /\ PacerCalledNow("updateAndGetWriteBatchSize") /\ ~appLimited_
          /\ writeInterval_ # 0 /\ scheduledWriteTime_ = None
        => lastCall'.returned = tokens_]_vars

\* Refreshes have accumulated: the tokens exceed the last burst plus the
\* packet limit a fresh pacer starts with.
C18_Witness ==
  /\ lastCall.op = "refreshPacingRate"
  /\ lastCall.arg.rtt >= pacingTimerTickInterval
  /\ tokens_ > lastCall.arg.rate.burstSize + writeConnectionDataPacketsLimit

\* The step is an updateAndGetWriteBatchSize(now) of a paced pacer that is
\* not app-limited and has a write scheduled at a time before now.
DriftCompensatedNow ==
  /\ PacerCalledNow("updateAndGetWriteBatchSize")
  /\ ~appLimited_
  /\ writeInterval_ # 0
  /\ scheduledWriteTime_ # None
  /\ \A s \in scheduledWriteTime_ : lastCall'.arg.currentTime > s

\* C19: timer-drift compensation. When a paced, not app-limited pacer with a
\* write scheduled at s is asked for the batch size at now > s, the cached
\* batch size becomes the least integer not below
\* ((now - s) + interval) * burst / interval, the tokens grow by what the
\* cached batch size exceeds the burst by (by nothing if it does not), and
\* the new token count is returned; asked exactly one interval after s, the
\* tokens grow by the burst and the cached batch size is twice the burst.
C19_DriftCompensation ==
  [][DriftCompensatedNow
       => \A s \in scheduledWriteTime_ :
            LET elapsed == lastCall'.arg.currentTime - s
                scaled == (elapsed + writeInterval_) * batchSize_
                excess == IF cachedBatchSize_' > batchSize_
                          THEN cachedBatchSize_' - batchSize_ ELSE 0
            IN  /\ cachedBatchSize_' * writeInterval_ >= scaled
                /\ (cachedBatchSize_' - 1) * writeInterval_ < scaled
                /\ tokens_' = tokens_ + excess
                /\ lastCall'.returned = tokens_'
                /\ elapsed = writeInterval_
                     => /\ tokens_' = tokens_ + batchSize_
                        /\ cachedBatchSize_' = 2 * batchSize_]_vars

\* The batch size was asked for one interval after the scheduled time.
C19_Witness ==
  /\ lastCall.op = "updateAndGetWriteBatchSize"
  /\ ~appLimited_
  /\ writeInterval_ # 0
  /\ \E s \in lastCall.arg.scheduledWriteTime :
       lastCall.arg.currentTime = s + writeInterval_
  /\ batchSize_ > 0
  /\ cachedBatchSize_ = 2 * batchSize_
  /\ lastCall.returned = tokens_

\* C20: updateAndGetWriteBatchSize leaves no scheduled-write stamp behind,
\* whichever way it returns, so that drift compensation is applied at most
\* once per onPacedWriteScheduled: a call that finds no stamp (none was set
\* since the last call) adds no tokens and leaves the cached batch size of a
\* not app-limited pacer alone, and on a paced, not app-limited pacer it
\* returns the current token count.
C20_CompensatedOncePerSchedule ==
  [][PacerCalledNow("updateAndGetWriteBatchSize")
       => /\ scheduledWriteTime_' = None
          /\ tokens_' # tokens_ => scheduledWriteTime_ # None
          /\ scheduledWriteTime_ = None
               => /\ tokens_' = tokens_
                  /\ ~appLimited_ => cachedBatchSize_' = cachedBatchSize_
                  /\ ~appLimited_ /\ writeInterval_ # 0
                       => lastCall'.returned = tokens_]_vars

\* The batch size was asked for with no write scheduled, on a paced pacer
\* whose cached batch size still shows an earlier compensation.
C20_Witness ==
  /\ lastCall.op = "updateAndGetWriteBatchSize"
  /\ lastCall.arg.scheduledWriteTime = None
  /\ scheduledWriteTime_ = None
  /\ ~appLimited_
  /\ writeInterval_ # 0
  /\ cachedBatchSize_ > batchSize_
  /\ lastCall.returned = tokens_

\* C21: refreshPacingRate with an rtt below the pacing timer's tick turns
\* pacing off: the write interval becomes 0 and the batch size the
\* connection's packet limit, whatever the rate calculator would return, and
\* the tokens stay as they are. While the write interval is 0 and the pacer
\* is not app-limited, updateAndGetWriteBatchSize returns the batch size,
\* whatever the token count, and getTimeUntilNextWrite returns 0.
C21_ShortRttDisablesPacing ==
  [][/\ PacerCalledNow("refreshPacingRate")
          /\ lastCall'.arg.rtt < pacingTimerTickInterval
        => /\ writeInterval_' = 0
           /\ batchSize_' = writeConnectionDataPacketsLimit
           /\ tokens_' = tokens_
     /\ PacerCalledNow("updateAndGetWriteBatchSize") /\ ~appLimited_
          /\ writeInterval_ = 0
        => /\ lastCall'.returned = batchSize_
           /\ tokens_' = tokens_
     /\ PacerCalledNow("getTimeUntilNextWrite") /\ ~appLimited_
          /\ writeInterval_ = 0
        => lastCall'.returned = 0]_vars

\* A refresh with a short rtt ignored a rate of a different interval and
\* burst.
C21_Witness ==
  /\ lastCall.op = "refreshPacingRate"
  /\ lastCall.arg.rtt < pacingTimerTickInterval
  /\ lastCall.arg.rate.interval # 0
  /\ lastCall.arg.rate.burstSize # batchSize_
  /\ tokens_ # batchSize_

\* C22: getTimeUntilNextWrite returns 0 when the pacer is app-limited or has
\* a token, and the write interval otherwise, and changes nothing in the
\* pacer.
C22_TimeUntilNextWrite ==
  [][PacerCalledNow("getTimeUntilNextWrite")
       => /\ lastCall'.returned =
               (IF appLimited_ \/ tokens_ >= 1 THEN 0 ELSE writeInterval_)
          /\ UNCHANGED pacerVars]_vars

\* A pacer with no token left, not app-limited, reported the interval of its
\* last refresh.
C22_Witness ==
  /\ lastCall.op = "getTimeUntilNextWrite"
  /\ tokens_ = 0
  /\ ~appLimited_
  /\ writeInterval_ > 0
  /\ lastCall.returned = writeInterval_

\* The step is a getTimeUntilNextWrite right after a refreshPacingRate.
AskedRightAfterRefresh ==
  PacerCalledNow("getTimeUntilNextWrite") /\ lastCall.op = "refreshPacingRate"

C25_AppLimited ==
  [][/\ PacerCalledNow("updateAndGetWriteBatchSize") /\ appLimited_
        => /\ lastCall'.returned = writeConnectionDataPacketsLimit
           /\ tokens_' = tokens_
     /\ PacerCalledNow("getTimeUntilNextWrite") /\ appLimited_
        => lastCall'.returned = 0]_vars

\* An app-limited pacer with a write interval and a write scheduled in the
\* past returned a packet limit that is neither its tokens nor its burst.
C25_Witness ==
  /\ lastCall.op = "updateAndGetWriteBatchSize"
  /\ appLimited_
  /\ writeInterval_ # 0
  /\ \E s \in lastCall.arg.scheduledWriteTime : lastCall.arg.currentTime > s
  /\ lastCall.returned = writeConnectionDataPacketsLimit
  /\ lastCall.returned # tokens_
  /\ lastCall.returned # batchSize_

\* What scenario S3 expects of the step the test program takes, given the
\* interval and the burst of the rate: the interval as the time until the
\* next write, the burst at the first observation and twice the burst at the
\* second.
TokensExpectation ==
  /\ pc.at = "nextWriteTime" /\ pc'.at = "schedule"
       => lastCall'.returned = writeInterval_
  /\ pc.at = "observe" /\ pc.left = 2 /\ pc'.at = "schedule"
       => lastCall'.returned = batchSize_
  /\ pc.at = "observe" /\ pc.left = 1 /\ pc'.at = "done"
       => lastCall'.returned = 2 * batchSize_

\* C24 as stated: scenario S3 on a pacer with a rate of a positive interval
\* and burst, starting with the refresh.
C24_TokensScenarioAsStated == [][TokensExpectation]_vars

\* C24: scenario S3 on a pacer whose initial tokens have all been used before
\* the refresh: after the refresh and a burst of sends the time until the
\* next write is the interval; a write scheduled at t0 and observed one
\* interval later returns the burst; a write scheduled then and observed one
\* more interval later returns twice the burst.
C24_TokensScenario == [][pc.initialTokensUsed => TokensExpectation]_vars

\* The test program ran to its end after using up the initial tokens.
C24_Witness ==
  /\ pc.at = "done"
  /\ pc.initialTokensUsed
  /\ lastCall.op = "updateAndGetWriteBatchSize"
  /\ batchSize_ >= 1
  /\ lastCall.returned = 2 * batchSize_

\* C26: the rate limiter caps the bytes sent per rtt: when every send comes
\* right after a currentCredit check and is of no more bytes than the credit
\* returned, the bytes sent since the last reset of the credit never exceed
\* maxCredit, the credit stays between 0 and maxCredit, and the subtraction
\* never underflows (DCHECK_GE never fails).
C26_CreditCapsBytesSent ==
  /\ 0 <= credit_
  /\ credit_ <= maxCredit_
  /\ sentSinceReset <= maxCredit_
  /\ lastCall.result # "abort"

\* Two sends since the last reset have used the credit up.
C26_Witness ==
  /\ lastCall.op = "onPacketSent"
  /\ credit_ = 0
  /\ sentSinceReset = maxCredit_
  /\ lastCall.arg < maxCredit_

\* C27: currentCredit(now, rtt) resets the credit to maxCredit and
\* lastChecked to now exactly when it was never checked or now is later than
\* lastChecked + rtt; otherwise, also when now is lastChecked + rtt, it
\* changes neither; it returns the credit there is after that.
C27_CurrentCredit ==
  [][lastCall'.op = "currentCredit"
       => LET checkTime == lastCall'.arg.checkTime
              due == \/ lastChecked_ = None
                     \/ \E last \in lastChecked_ :
                          checkTime > last + lastCall'.arg.rtt
          IN  /\ due => credit_' = maxCredit_ /\ lastChecked_' = {checkTime}
              /\ ~due => credit_' = credit_ /\ lastChecked_' = lastChecked_
              /\ lastCall'.returned = credit_'
              /\ maxCredit_' = maxCredit_]_vars

\* The credit was asked for exactly one rtt after the last reset, with some
\* of it spent, and was not reset.
C27_Witness ==
  /\ lastCall.op = "currentCredit"
  /\ lastCall.arg.rtt > 0
  /\ lastChecked_ = {lastCall.arg.checkTime - lastCall.arg.rtt}
  /\ credit_ < maxCredit_
  /\ lastCall.returned = credit_

\* The upfront cost of a header as the specification lists it: for a long
\* header the initial byte, the version, the connection-id length bytes
\* (one packed byte in the legacy format, two otherwise), the connection
\* ids, the token length and token of an Initial, the reserved length field
\* and the packet number; for a short header the initial byte, the
\* connection id and the packet number.
UpfrontHeaderCost(header, pktNumLen) ==
  IF header.form = "Short"
  THEN 1 + header.connIdSize + pktNumLen
  ELSE 1 + 4
         + (IF header.version = "MVFST_OLD" THEN 1 ELSE 2)
         + header.srcConnIdSize + header.dstConnIdSize
         + (IF header.type = "Initial"
            THEN QuicIntegerSize(header.tokenSize) + header.tokenSize
            ELSE 0)
         + 2 + pktNumLen

JustConstructed == lastCall.op = "RegularQuicPacketBuilder"

HeaderOverBudget ==
  UpfrontHeaderCost(lastCall.arg.header, packetNumberEncoding_.length)
    > lastCall.arg.remainingBytes

\* C28: right after construction remainingBytes is zero when the upfront
\* cost of the header exceeds the budget and the budget less that cost
\* otherwise, so it never wraps around; canBuildPacket() returns true iff
\* remainingBytes is not zero, and so returns false on a builder whose header
\* did not fit.
C28_HeaderBudgetClamped ==
  /\ [](JustConstructed =>
          /\ remainingBytes_ \in 0..lastCall.arg.remainingBytes
          /\ remainingBytes_ =
               IF HeaderOverBudget
               THEN 0
               ELSE lastCall.arg.remainingBytes
                      - UpfrontHeaderCost(lastCall.arg.header,
                                          packetNumberEncoding_.length))
  /\ [][lastCall'.op = "canBuildPacket" =>
          /\ lastCall'.returned = (remainingBytes_ # 0)
          /\ (JustConstructed /\ HeaderOverBudget => lastCall'.returned = FALSE)]_vars

\* An Initial header that did not fit a budget that was not zero.
C28_Witness ==
  /\ JustConstructed
  /\ HeaderOverBudget
  /\ lastCall.arg.remainingBytes > 0
  /\ lastCall.arg.header.form = "Long"
  /\ lastCall.arg.header.type = "Initial"
  /\ remainingBytes_ = 0

BuiltNow == lastCall'.op = "buildPacket"

\* The least body the specification names: 4 bytes and the packet number.
StatedMinimum == 4 + packetNumberEncoding_.length

TooShortForSample == Len(body_) + cipherOverhead_ < StatedMinimum

\* The body is the one found, then PADDING bytes only, and the frames
\* returned are the ones recorded.
OnlyTrailingPadding ==
  /\ Len(body_') >= Len(body_)
  /\ SubSeq(body_', 1, Len(body_)) = body_
  /\ \A i \in (Len(body_) + 1)..Len(body_') : body_'[i] = PaddingByte
  /\ lastCall'.returned.body = body_'
  /\ lastCall'.returned.packet.frames = packet_.frames
  /\ packet_' = packet_

\* C29 as stated: every built packet that is too short comes out with a
\* body of at least 4 + pktnum-len bytes.
C29_AnyShortPacketPaddedAsStated ==
  [][BuiltNow =>
       /\ OnlyTrailingPadding
       /\ (TooShortForSample => Len(body_') >= StatedMinimum)]_vars

\* C29: every built packet has the body written before, followed by
\* PADDING bytes only, and its recorded frames unchanged; when body length +
\* cipherOverhead < 4 + pktnum-len, at least one frame is recorded and the
\* budget left covers the two-byte length field and the bytes missing to
\* 4 + pktnum-len, the final body has at least 4 + pktnum-len bytes.
C29_ShortPacketPadded ==
  [][BuiltNow =>
       /\ OnlyTrailingPadding
       /\ (/\ TooShortForSample
           /\ packet_.frames # <<>>
           /\ remainingBytes_ >= kMaxPacketLenSize + (StatedMinimum - Len(body_))
           => Len(body_') >= StatedMinimum)]_vars

\* A short packet with a frame and budget was built and got its padding.
C29_Witness ==
  /\ lastCall.op = "buildPacket"
  /\ lastCall.arg.frames # <<>>
  /\ Len(lastCall.arg.body) + cipherOverhead_ < 4 + packetNumberEncoding_.length
  /\ lastCall.arg.remainingBytes
       >= kMaxPacketLenSize + (4 + packetNumberEncoding_.length) - Len(lastCall.arg.body)
  /\ cipherOverhead_ > 0
  /\ Len(body_) > Len(lastCall.arg.body)
  /\ Len(body_) >= 4 + packetNumberEncoding_.length
  /\ Len(lastCall.returned.packet.frames) = Len(lastCall.arg.frames)

\* The writer is as makeBatchWriter made it.
FreshWriter ==
  batchWriter =
    MakeBatchWriter(batchWriter.batchingMode, batchWriter.maxBufs_,
                    batchWriter.gso)

\* C30: in every batching mode size() is the total length of the packets
\* appended since the last reset or flush and empty() tells that there are
\* none; right after reset() the writer is empty, of size 0 and as it was
\* made, whatever was appended before.
C30_WriterAccounting ==
  /\ BatchWriterSize(batchWriter) = ChainDataLength(batched)
  /\ BatchWriterEmpty(batchWriter) = (batched = <<>>)
  /\ (lastCall.op = "size" => lastCall.returned = ChainDataLength(batched))
  /\ (lastCall.op = "empty" => lastCall.returned = (batched = <<>>))
  /\ (lastCall.op \in {"reset", "flush"} =>
        /\ BatchWriterEmpty(batchWriter)
        /\ BatchWriterSize(batchWriter) = 0
        /\ FreshWriter)

\* size() was asked of a writer holding runs of several packet lengths.
C30_Witness ==
  /\ lastCall.op = "size"
  /\ batchWriter.strategy = "SENDMMSG_GSO"
  /\ Len(batched) = 3
  /\ batched[1] > batched[2]
  /\ lastCall.returned = batched[1] + batched[2] + batched[3]

WriterAppendedNow == lastCall'.op = "append"

\* The packets appended since the writer was last empty are of one size.
EqualSized(sizes) == \A i, j \in 1..Len(sizes) : sizes[i] = sizes[j]

\* The batch the step appends to is one the batch limit speaks of: packets
\* of any size for the sendmmsg strategies, equal-sized ones for GSO.
CountedBatch ==
  \/ batchWriter.strategy \in {"SENDMMSG", "SENDMMSG_GSO"}
  \/ batchWriter.strategy = "GSO" /\ EqualSized(batched')

HoldsAtMostBatchNum ==
  Len(BufferedPackets(batchWriter.bufs_)) <= batchWriter.maxBufs_

\* The k-th append since the writer was empty returns true iff k = N.
NthAppendFills ==
  lastCall'.returned = (Len(batched') = batchWriter.maxBufs_)

\* C31 as stated: for every batchNum N, in SENDMMSG, GSO (equal-sized
\* packets) and SENDMMSG_GSO mode the first N - 1 appends return false, the
\* N-th returns true, and the writer never holds more than N packets.
C31_BatchLimitAsStated ==
  /\ [](batchWriter.strategy \in {"SENDMMSG", "GSO", "SENDMMSG_GSO"}
          => HoldsAtMostBatchNum)
  /\ [][WriterAppendedNow /\ CountedBatch => NthAppendFills]_vars

\* A sendmmsg writer, or a GSO writer of batchNum 2 or more.
LimitedWriter ==
  \/ batchWriter.strategy \in {"SENDMMSG", "SENDMMSG_GSO"}
  \/ (batchWriter.strategy = "GSO" /\ batchWriter.maxBufs_ >= 2)

\* C31: the same for SENDMMSG and SENDMMSG_GSO writers of every batchNum
\* and for GSO writers of batchNum 2 and more.
C31_BatchLimit ==
  /\ [](LimitedWriter => HoldsAtMostBatchNum)
  /\ [][(WriterAppendedNow /\ CountedBatch /\ LimitedWriter)
          => NthAppendFills]_vars

\* The third equal-sized packet filled a GSO batch of three.
C31_Witness ==
  /\ lastCall.op = "append"
  /\ lastCall.returned = TRUE
  /\ batchWriter.strategy = "GSO"
  /\ batchWriter.maxBufs_ = 3
  /\ Len(batched) = 3
  /\ EqualSized(batched)
  /\ mustFlush

NeedsFlushAskedNow == lastCall'.op = "needsFlush"

\* The GSO batch got a packet smaller than the one before it.
SmallerAfterPrior ==
  /\ batchWriter.strategy = "GSO"
  /\ Len(batched) >= 2
  /\ batched[Len(batched)] < batched[Len(batched) - 1]

GsoWriterOfOne ==
  batchWriter.batchingMode = "GSO" /\ batchWriter.maxBufs_ = 1

\* What the call of this step must return on a writer that is a GSO
\* writer: nothing turns the first packet away and it does not fill the
\* batch; after it a smaller packet may join and ends the batch, a larger
\* one needs a flush first.
GsoSegmentRule ==
  /\ (batched = <<>> => lastCall'.returned = FALSE)
  /\ (Len(batched) = 1 /\ lastCall'.arg < batched[1] =>
        lastCall'.returned = (lastCall'.op = "append"))
  /\ (Len(batched) = 1 /\ lastCall'.arg > batched[1] /\ NeedsFlushAskedNow =>
        lastCall'.returned = TRUE)

\* What it must return on the writer made when the kernel lacks GSO.
NoGsoRule ==
  /\ batchWriter.strategy = "NONE"
  /\ (WriterAppendedNow => lastCall'.returned = TRUE)
  /\ (NeedsFlushAskedNow /\ Len(batched) = 1 /\ lastCall'.arg < batched[1] =>
        lastCall'.returned = FALSE)

\* C33: for a writer created in GSO mode with batchNum 1, on an empty
\* batch needsFlush(s) is false and append(s) returns false; after it
\* needsFlush(smaller) is false, append(smaller) returns true and
\* needsFlush(larger) is true; without kernel GSO the writer is the non-GSO
\* one, whose append returns true and whose needsFlush(smaller) is false.
C33_GsoSegmentRule ==
  [][GsoWriterOfOne /\ (WriterAppendedNow \/ NeedsFlushAskedNow) =>
       IF batchWriter.gso
       THEN batchWriter.strategy = "GSO" /\ GsoSegmentRule
       ELSE NoGsoRule]_vars

\* A smaller packet ended the batch of a GSO writer of batchNum 1.
C33_Witness ==
  /\ GsoWriterOfOne
  /\ batchWriter.gso
  /\ lastCall.op = "append"
  /\ lastCall.returned = TRUE
  /\ Len(batched) = 2
  /\ batched[2] < batched[1]

\* The step rebuilds the packet the last call has rebuilt, into a builder
\* with the same space.
RebuiltAgainNow ==
  /\ lastCall.op = "rebuildFromPacket"
  /\ RebuiltNow
  /\ lastCall'.packet = lastCall.packet
  /\ lastCall'.space = lastCall.space

\* All a rebuild of packet pn may change: the packet gets its clone event,
\* the event enters the set and is counted, once.
OnlyRegistersEvent(pn) ==
  /\ UNCHANGED <<sfVars, cidVars, streamVars, nextPacketNum,
                 cryptoRetransmissionBuffer>>
  /\ DOMAIN outstandingPackets' = DOMAIN outstandingPackets
  /\ \A q \in DOMAIN outstandingPackets :
       /\ outstandingPackets'[q].frames = outstandingPackets[q].frames
       /\ q # pn => outstandingPackets'[q] = outstandingPackets[q]
  /\ \/ UNCHANGED <<outstandingPackets, outstandingPacketEvents,
                    outstandingClonedPacketsCount>>
     \/ /\ ~HasValue(outstandingPackets[pn].associatedEvent)
        /\ HasValue(lastCall'.event)
        /\ outstandingPackets'[pn].associatedEvent = lastCall'.event
        /\ outstandingPacketEvents' =
             outstandingPacketEvents \cup {Value(lastCall'.event)}
        /\ outstandingClonedPacketsCount' = outstandingClonedPacketsCount + 1

\* C34: a rebuild changes nothing but the one-time registration of the
\* clone event; rebuilding the same packet again right away, into a builder
\* with the same space, writes the same frames, returns the same event or
\* none again, and changes nothing at all.
C34_RebuildIdempotent ==
  /\ [][RebuiltNow => OnlyRegistersEvent(lastCall'.packet)]_vars
  /\ [][RebuiltAgainNow =>
          /\ lastCall'.written = lastCall.written
          /\ lastCall'.event = lastCall.event
          /\ lastCall'.result = lastCall.result
          /\ lastCall'.examined = lastCall.examined
          /\ UNCHANGED <<rbVars, streamVars, sfVars, cidVars>>]_vars

\* A rebuild that wrote two frames and registered the packet's clone event.
C34_Witness ==
  /\ Rebuilt
  /\ lastCall.event = Some(lastCall.packet)
  /\ Len(lastCall.written) = 2
  /\ lastCall.packet \in DOMAIN outstandingPackets
  /\ outstandingPackets[lastCall.packet].associatedEvent = lastCall.event
  /\ outstandingClonedPacketsCount = 1

\* The code of a connection-id length in the legacy byte: 0 for 0 and
\* n for n + 3.
LengthCode(len) == IF len = 0 THEN 0 ELSE len - 3

\* The byte is the two codes packed, and decoding it gives the lengths
\* back.
LengthsRoundTrip(dcidSize, scidSize, byte, decoded) ==
  /\ byte = LengthCode(dcidSize) * 16 + LengthCode(scidSize)
  /\ decoded = <<dcidSize, scidSize>>

\* The lengths that have a code up to the given one.
CodedLengths(maxCode) == {0} \cup 4..(maxCode + 3)

PendingButChallenge ==
  <<frames, outstandingPathValidation, schedulePathValidationTimeout,
    cancelPingTimeout, pathChallengeStartTime>>

\* C36: updateSimpleFrameOnPacketLoss on a PATH_CHALLENGE frame f sets
\* pendingEvents.pathChallenge to f when f is still the outstanding path
\* validation and leaves it as it was otherwise; in both cases
\* pendingEvents.frames, outstandingPathValidation and the rest of the
\* pending-event state are unchanged.
C36_LostChallengeRearmedIfOutstanding ==
  [][CalledNow("lost", {"PathChallengeFrame"})
       => /\ UNCHANGED PendingButChallenge
          /\ pathChallenge' =
               IF outstandingPathValidation = Some(lastCall'.frame)
               THEN Some(lastCall'.frame) ELSE pathChallenge]_vars

\* The outstanding PATH_CHALLENGE was lost and is armed again, with a frame
\* pending in the queue.
C36_Witness ==
  /\ lastCall.op = "lost"
  /\ lastCall.frame.type = "PathChallengeFrame"
  /\ outstandingPathValidation = Some(lastCall.frame)
  /\ pathChallenge = Some(lastCall.frame)
  /\ frames # <<>>

\* The frames of the given simple-frame types among the frames fs of a packet.
SimpleFramesOfTypes(fs, types) ==
  {i \in 1..Len(fs) : fs[i].type = "QuicSimpleFrame" /\ fs[i].frame.type \in types}

\* C37: a PATH_RESPONSE that was sent is not transmitted again:
\* updateSimpleFrameOnPacketLoss on it leaves pendingEvents.frames as it
\* was, updateSimpleFrameOnPacketClone returns none for it, and no packet
\* written by rebuildFromPacket carries a PATH_RESPONSE; a lost PING leaves
\* pendingEvents.frames as it was too.
C37_ResponseSentAtMostOnce ==
  [][/\ CalledNow("lost", {"PathResponseFrame", "PingFrame"}) => frames' = frames
     /\ CalledNow("cloned", {"PathResponseFrame"})
          => frames' = frames /\ lastCall'.returned = None
     /\ lastCall'.op = "rebuildFromPacket"
          => /\ frames' = frames
             /\ SimpleFramesOfTypes(lastCall'.written, {"PathResponseFrame"}) = {}]_vars

\* The packet that carried a PATH_RESPONSE was rebuilt into a builder with
\* space for it, while the response is in flight and off the queue.
C37_Witness ==
  /\ lastCall.op = "rebuildFromPacket"
  /\ lastCall.space > 0
  /\ SimpleFramesOfTypes(outstandingPackets[lastCall.packet].frames,
                         {"PathResponseFrame"}) # {}
  /\ \E f \in inflight : f.type = "PathResponseFrame"
  /\ frames = <<>>

\* The locals of rebuildFromPacket when it leaves its loop on packet pn with
\* `space` bytes left in the builder.
RebuildLocals(pn, space) ==
  RebuildLoop(RebuildStart(space), outstandingPackets[pn].frames, 1,
              outstandingPackets[pn].isHandshake)

\* A window update of the packet was due and was not written.
WindowUpdateLeftOut(st) == st.shouldWriteWindowUpdate /\ ~st.windowUpdateWritten

\* C38: rebuildFromPacket returns a clone event iff every frame of the
\* packet reported write success and a frame other than ACK and PADDING was
\* written to the builder; in that case writeSuccess is true after the
\* loop, so the test (shouldWriteWindowUpdate && !windowUpdateWritten &&
\* !writeSuccess) is false, and a MAX_DATA or MAX_STREAM_DATA frame that
\* did not fit does not prevent the clone.
C38_CloneIffWrittenNotPureAck ==
  [][(RebuiltNow /\ lastCall'.result = "returned")
       => \A st \in {RebuildLocals(lastCall'.packet, lastCall'.space)} :
            \A cloneable \in {~st.returned /\ ~PureAck(lastCall'.written)} :
              /\ HasValue(lastCall'.event) <=> cloneable
              /\ cloneable => st.writeSuccess
              /\ (cloneable /\ WindowUpdateLeftOut(st)) => HasValue(lastCall'.event)
              /\ ~PureAck(lastCall'.written) <=> st.notPureAck]_vars

\* A packet with a PING and a MAX_DATA frame was rebuilt into a builder with
\* space for the PING only, and the clone event was returned.
C38_Witness ==
  /\ Rebuilt
  /\ HasValue(lastCall.event)
  /\ MaxDataFrame \in FramesOf(outstandingPackets[lastCall.packet].frames)
  /\ MaxDataFrame \notin FramesOf(lastCall.written)
  /\ lastCall.written # << >>

\* The step is a valid PATH_RESPONSE clearing the outstanding path validation.
ValidatedNow ==
  /\ ReceivedNow("PathResponseFrame")
  /\ HasValue(outstandingPathValidation)
  /\ ~HasValue(outstandingPathValidation')

\* C39: when a valid PATH_RESPONSE has cleared outstandingPathValidation, the
\* challenge of that validation is not armed in pendingEvents.pathChallenge,
\* so that a later send cannot make it outstanding again; for every order of
\* challenge sent, challenge lost and response received.
C39_ValidatedChallengeNotArmed ==
  [][ValidatedNow => pathChallenge' # outstandingPathValidation]_vars

\* No two entries of conn.peerConnectionIds carry the same connection id.
PeerConnIdsDistinct ==
  \A i, j \in 1..Len(peerConnectionIds) :
    peerConnectionIds[i].connId = peerConnectionIds[j].connId => i = j

\* The entry a NEW_CONNECTION_ID frame is stored as.
StoredEntry(f) == ConnectionIdData(f.connectionId, f.sequenceNumber, f.token)

\* C40: the connection ids of conn.peerConnectionIds are pairwise distinct
\* in every state reached by received NEW_CONNECTION_ID frames from a set
\* with distinct ids, and a received NEW_CONNECTION_ID frame either leaves
\* the set as it was or appends exactly its own entry {connectionId,
\* sequenceNumber, token} at the end, the latter only for an id that was
\* not in the set.
C40_PeerConnIdsDistinct ==
  /\ []PeerConnIdsDistinct
  /\ [][ReceivedNow("NewConnectionIdFrame")
          => \/ peerConnectionIds' = peerConnectionIds
             \/ /\ peerConnectionIds' =
                     Append(peerConnectionIds, StoredEntry(lastCall'.frame))
                /\ ExistingPeerConnIdData(lastCall'.frame.connectionId) = {}
                /\ lastCall'.result = "false"]_vars

\* The entry of a received NEW_CONNECTION_ID frame is the last of the set,
\* behind the initial connection id, and the only one with its id.
C40_Witness ==
  /\ lastCall.op = "received"
  /\ lastCall.frame.type = "NewConnectionIdFrame"
  /\ lastCall.result = "false"
  /\ Len(peerConnectionIds) >= 2
  /\ peerConnectionIds[Len(peerConnectionIds)] = StoredEntry(lastCall.frame)
  /\ Cardinality(ExistingPeerConnIdData(lastCall.frame.connectionId)) = 1

====
